---- MODULE Spec2Model ----
(***************************************************************************)
(* LidarViewer: the Level-of-Detail decimation engine                      *)
(* (viewer/lod_system.py), the height-profile calculator                   *)
(* (profile_line/profile_calculator.py), the cross-section extraction and  *)
(* the cross-section layer (profile_line/profile_viewer.py), the layer     *)
(* manager and its colouring (layers/layer_db.py), the plotter update      *)
(* manager (viewer/plotter_update_manager.py), and line drawing and point  *)
(* picking (profile_line/line_drawer.py, point_picking/point_picker.py),   *)
(* as state machines.                                                      *)
(*                                                                         *)
(* Numbers.  The code computes in floating point; the model computes in    *)
(* exact arithmetic.  Lengths that the code obtains from a square root     *)
(* (np.linalg.norm) are carried as their squares, and a quotient is        *)
(* compared by cross-multiplication, so that "exactly equal to a           *)
(* threshold" is a case the model can reach.  Heights and percentages are  *)
(* rationals [n, d] in lowest terms; NaN is [n |-> 0, d |-> 0].            *)
(*                                                                         *)
(* Python's None is the record None; an optional value v is Some(v).       *)
(* Arrays are sequences: numpy index k is position k + 1.                  *)
(***************************************************************************)
EXTENDS Integers, Sequences, FiniteSets, TLC

VARIABLES
    enabled,              \* LODSystem.enabled
    distance_thresholds,  \* LODSystem.distance_thresholds, in tenths
    decimation_factors,   \* LODSystem.decimation_factors
    lod_call,             \* the LOD call in progress: its inputs and what it returned
    auto_mode,            \* LODSystem.auto_mode
    performance_stats,    \* LODSystem.performance_stats, times in milliseconds
    calc_points,          \* ProfileCalculator.points
    calc_line_start,      \* ProfileCalculator.line_start
    calc_line_end,        \* ProfileCalculator.line_end
    prof_call,            \* the calculate_profile call: its inputs and its outcome
    calc_calls,           \* how many times calculate_profile was called
    cross_call,           \* the cross-section extraction call: inputs and outcome
    layers,               \* LayerManager.layers: uuid -> layer
    layer_order,          \* the keys of LayerManager.layers in insertion order
    current_layer_id,     \* LayerManager.current_layer_id
    current_file_path,    \* LayerManager.current_file_path
    current_points,       \* ProfileViewer.current_points
    current_start,        \* ProfileViewer.current_start
    current_end,          \* ProfileViewer.current_end
    profile_layer_id,     \* history: the layer current_points was taken from
    layer_call,           \* the last layer operation and its outcome
    color_call,           \* the _prepare_layer_coloring call: inputs and outcome
    update_pending,       \* PlotterUpdateManager._update_pending
    batch_mode,           \* PlotterUpdateManager._batch_mode
    debounce_timer,       \* PlotterUpdateManager._debounce_timer: None or a running timer
    debounce_delay,       \* PlotterUpdateManager._debounce_delay, milliseconds
    plotter_updates,      \* how many times plotter.update() was called
    update_call,          \* the last step of the update manager
    batch_request_waiting, \* history: a non-immediate request made in batch mode
                          \* has not been followed by plotter.update() yet
    is_drawing,           \* LineDrawer.is_drawing
    drawer_start_point,   \* LineDrawer.start_point
    drawer_end_point,     \* LineDrawer.end_point
    line_actor,           \* LineDrawer.line_actor: None or the drawn line
    picking_callback,     \* the plotter: None, or the owner of the callback that
                          \* point picking is enabled with
    picker_enabled,       \* PointPicker._enabled
    picked_points,        \* PointPicker.picked_points
    session_picks,        \* history: the picks accepted in this drawing session
    completions,          \* history: line-completed callbacks in this session
    draw_call             \* the last step of line drawing or point picking

lod_vars == <<enabled, distance_thresholds, decimation_factors, lod_call>>
prof_vars == <<calc_points, calc_line_start, calc_line_end, prof_call, calc_calls>>
telemetry_vars == <<auto_mode, performance_stats>>
cross_vars == <<cross_call>>
manager_vars == <<layers, layer_order, current_layer_id, current_file_path>>
viewer_vars == <<current_points, current_start, current_end, profile_layer_id>>
layer_vars == <<manager_vars, viewer_vars, layer_call>>
color_vars == <<color_call>>
update_vars == <<update_pending, batch_mode, debounce_timer, debounce_delay,
                 plotter_updates, update_call, batch_request_waiting>>
drawer_vars == <<drawer_start_point, drawer_end_point, line_actor>>
picker_vars == <<picker_enabled, picked_points>>
session_vars == <<session_picks, completions, draw_call>>
draw_vars == <<is_drawing, picking_callback, drawer_vars, picker_vars, session_vars>>
vars == <<lod_vars, telemetry_vars, prof_vars, cross_vars, layer_vars, color_vars,
          update_vars, draw_vars>>

\* What the operations of one component leave alone.
non_viewer_vars == <<prof_vars, cross_vars, layer_vars, color_vars, update_vars,
                     draw_vars>>
non_lod_vars == <<telemetry_vars, non_viewer_vars>>
non_prof_vars == <<lod_vars, telemetry_vars, cross_vars, layer_vars, color_vars,
                   update_vars, draw_vars>>
non_cross_vars == <<lod_vars, telemetry_vars, prof_vars, layer_vars, color_vars,
                    update_vars, draw_vars>>
non_layer_draw_vars == <<lod_vars, telemetry_vars, prof_vars, cross_vars, color_vars,
                         update_vars>>
non_layer_vars == <<non_layer_draw_vars, draw_vars>>
non_color_vars == <<lod_vars, telemetry_vars, prof_vars, cross_vars, layer_vars,
                    update_vars, draw_vars>>
non_update_vars == <<lod_vars, telemetry_vars, prof_vars, cross_vars, layer_vars,
                     color_vars, draw_vars>>

----------------------------------------------------------------------------
(* Bounds of the model *)

MaxPoints == 41     \* longest point array handed to apply_lod
MaxCam == 9         \* largest camera offset from the focal point
MaxExtent == 2      \* largest bounding-box extent along x and y
SceneScale == 2     \* scene-size calls: coordinates are multiples of 1 / SceneScale
MaxRenders == 3     \* most renders whose time is recorded
MaxPicks == 3       \* most picks accepted in one drawing session
MaxPicked == 1      \* most points the point picker stores
MaxCloud == 2       \* most points in the cloud handed to calculate_profile
MaxSamples == 5     \* largest num_samples
MaxCross == 2       \* most points in the cloud handed to cross-section extraction
MaxCalls == 2       \* most calls of calculate_profile on one calculator
MaxValues == 3      \* most values in the attribute column that is coloured
MaxUpdates == 4     \* most plotter updates that are counted

----------------------------------------------------------------------------
(* Values *)

None == [is_none |-> TRUE]
Some(v) == [is_none |-> FALSE, val |-> v]

\* Python truthiness of an Optional[str]: None and "" are both false.
Truthy(opt) == ~opt.is_none /\ opt.val # ""

Abs(x) == IF x < 0 THEN -x ELSE x

RECURSIVE GCD(_, _)
GCD(a, b) == IF b = 0 THEN a ELSE GCD(b, a % b)

NaN == [n |-> 0, d |-> 0]
IsNaN(r) == r.d = 0

\* The rational n/d (d # 0) in lowest terms with a positive denominator.
Rat(n, d) ==
    LET g == GCD(Abs(n), Abs(d))
        s == IF d < 0 THEN -1 ELSE 1
    IN [n |-> (s * n) \div g, d |-> (s * d) \div g]

RatInt(k) == [n |-> k, d |-> 1]
RatLE(a, b) == a.n * b.d <= b.n * a.d
RatLT(a, b) == a.n * b.d < b.n * a.d
RatAdd(a, b) == Rat(a.n * b.d + b.n * a.d, a.d * b.d)
RatSub(a, b) == Rat(a.n * b.d - b.n * a.d, a.d * b.d)
RatMul(a, b) == Rat(a.n * b.n, a.d * b.d)

\* dict.get(key, default)
Get(dict, key, default) == IF key \in DOMAIN dict THEN dict[key] ELSE default

\* numpy index k of an array
At0(arr, k) == arr[k + 1]

NormSq(v) == v[1] * v[1] + v[2] * v[2] + v[3] * v[3]
Sub3(a, b) == <<a[1] - b[1], a[2] - b[2], a[3] - b[3]>>

----------------------------------------------------------------------------
(* LODSystem: configuration *)

LodLevels == {"close", "near", "medium", "far"}

\* size_thresholds['small']
SmallThreshold == 50000

\* LODSystem.__init__: the thresholds (in tenths) and strides it starts with.
DefaultDistanceThresholds == [far |-> 50, medium |-> 20, near |-> 10, close |-> 5]
DefaultDecimationFactors == [far |-> 20, medium |-> 5, near |-> 2, close |-> 1]

PerformanceModes == {"auto", "performance", "quality"}

\* PointCloudViewer.set_performance_mode: what it passes to configure_thresholds.
ModeDistanceThresholds(mode) ==
    CASE mode = "performance" -> [far |-> 30, medium |-> 15, near |-> 8, close |-> 3]
      [] mode = "quality"     -> [far |-> 80, medium |-> 40, near |-> 20, close |-> 10]
      [] OTHER                -> [far |-> 50, medium |-> 20, near |-> 10, close |-> 5]

ModeDecimationFactors(mode) ==
    CASE mode = "performance" -> [far |-> 25, medium |-> 10, near |-> 3, close |-> 1]
      [] mode = "quality"     -> [far |-> 10, medium |-> 3, near |-> 2, close |-> 1]
      [] OTHER                -> [far |-> 20, medium |-> 5, near |-> 2, close |-> 1]

----------------------------------------------------------------------------
(* LODSystem.determine_lod_level and what it calls.  The point array is    *)
(* read only through len(points) and its bounding box, so the cloud is     *)
(* the record [is_none, count, min_coords, max_coords].                    *)

\* calculate_scene_size for a cloud whose coordinates are multiples of
\* 1 / per_unit: max(norm(max - min), 1.0) ** 2, in units of 1 / per_unit^2
calculate_scene_size_in(cloud, per_unit) ==
    IF cloud.is_none \/ cloud.count = 0
    THEN per_unit * per_unit
    ELSE LET scene_size_sq == NormSq(Sub3(cloud.max_coords, cloud.min_coords))
         IN IF scene_size_sq > per_unit * per_unit THEN scene_size_sq
            ELSE per_unit * per_unit

\* calculate_scene_size, squared, for a cloud with integer coordinates
calculate_scene_size(cloud) == calculate_scene_size_in(cloud, 1)

\* get_camera_distance, squared and in hundredths: 1.0 without a plotter or a
\* camera, else max(norm(position - focal point), 0.1).
get_camera_distance(viewer) ==
    IF ~viewer.has_plotter \/ viewer.camera.is_none
    THEN 100
    ELSE LET distance_sq == NormSq(Sub3(viewer.camera.val.position,
                                        viewer.camera.val.focal_point))
         IN IF 100 * distance_sq > 1 THEN 100 * distance_sq ELSE 1

\* Mutant of relative_distance_exceeds: the comparison written >=.
relative_distance_reaches(camera_distance, scene_size, threshold) ==
    camera_distance >= threshold * threshold * scene_size

\* relative_distance > threshold, for relative_distance = camera_distance /
\* scene_size and a threshold in tenths.
relative_distance_exceeds(camera_distance, scene_size, threshold) ==
    camera_distance > threshold * threshold * scene_size

\* Mutant of is_small_dataset: the threshold written with a digit missing.
is_small_dataset_typo(point_count) == point_count < 5000

\* point_count < self.size_thresholds['small']
is_small_dataset(point_count) == point_count < SmallThreshold

\* Mutant of determine_lod_level: the dataset size is looked at before the
\* forced level.
determine_lod_level_size_first(sys, cloud, viewer, force_level) ==
    IF ~sys.enabled THEN "close"
    ELSE LET point_count == IF cloud.is_none THEN 0 ELSE cloud.count
         IN IF is_small_dataset(point_count) THEN "close"
            ELSE IF Truthy(force_level) THEN force_level.val
            ELSE LET camera_distance == get_camera_distance(viewer)
                     scene_size == calculate_scene_size(cloud)
                 IN IF relative_distance_exceeds(camera_distance, scene_size,
                                                 sys.distance_thresholds.far)
                    THEN "far"
                    ELSE IF relative_distance_exceeds(camera_distance, scene_size,
                                                      sys.distance_thresholds.medium)
                    THEN "medium"
                    ELSE IF relative_distance_exceeds(camera_distance, scene_size,
                                                      sys.distance_thresholds.near)
                    THEN "near"
                    ELSE "close"

determine_lod_level(sys, cloud, viewer, force_level) ==
    IF ~sys.enabled THEN "close"
    ELSE IF Truthy(force_level) THEN force_level.val
    ELSE LET point_count == IF cloud.is_none THEN 0 ELSE cloud.count
         IN IF is_small_dataset(point_count) THEN "close"
            ELSE LET camera_distance == get_camera_distance(viewer)
                     scene_size == calculate_scene_size(cloud)
                 IN IF relative_distance_exceeds(camera_distance, scene_size,
                                                 sys.distance_thresholds.far)
                    THEN "far"
                    ELSE IF relative_distance_exceeds(camera_distance, scene_size,
                                                      sys.distance_thresholds.medium)
                    THEN "medium"
                    ELSE IF relative_distance_exceeds(camera_distance, scene_size,
                                                      sys.distance_thresholds.near)
                    THEN "near"
                    ELSE "close"

----------------------------------------------------------------------------
(* LODSystem.apply_lod.  processing_time is wall-clock time and is left    *)
(* out of the LODInfo.                                                     *)

\* np.arange(0, n, step) as the sequence of its values
\* Mutant of arange: an incomplete last stride is dropped.
arange_whole_strides(n, step) == [k \in 1..(n \div step) |-> (k - 1) * step]

arange(n, step) == [k \in 1..((n + step - 1) \div step) |-> (k - 1) * step]

\* arr[indices]
gather(arr, indices) == [k \in 1..Len(indices) |-> At0(arr, indices[k])]

\* scalars[decimated_indices] raises IndexError when an index is out of range.
index_error(arr, indices) == \E k \in 1..Len(indices) : indices[k] >= Len(arr)

\* Mutant of decimate_scalars: the column is cut to the new length instead of
\* being gathered at the decimated indices.
decimate_scalars_truncated(scalars, decimated_indices) ==
    SubSeq(scalars, 1, Len(decimated_indices))

\* decimated_scalars = scalars[decimated_indices]
decimate_scalars(scalars, decimated_indices) == gather(scalars, decimated_indices)

\* Mutant of reduction_percent: the share of points kept, not removed.
reduction_percent_kept(original_count, final_count) ==
    Rat(final_count * 100, original_count)

\* ((original_count - final_count) / original_count) * 100
reduction_percent(original_count, final_count) ==
    Rat((original_count - final_count) * 100, original_count)

apply_lod(sys, points, scalars, lod_level) ==
    IF ~sys.enabled \/ points.is_none \/ Len(points.val) = 0
    THEN [points |-> points, scalars |-> scalars,
          info |-> [level |-> "close", decimation |-> 1,
                    original_count |-> IF points.is_none THEN 0 ELSE Len(points.val)]]
    ELSE
    LET original_count == Len(points.val)
        decimation_factor == Get(sys.decimation_factors, lod_level, 1)
    IN IF decimation_factor <= 1
       THEN [points |-> points, scalars |-> scalars,
             info |-> [level |-> lod_level, decimation |-> 1,
                       original_count |-> original_count,
                       final_count |-> original_count,
                       reduction_percent |-> RatInt(0)]]
       ELSE
       LET decimated_indices == arange(original_count, decimation_factor)
       IN IF ~scalars.is_none /\ index_error(scalars.val, decimated_indices)
          THEN [points |-> points, scalars |-> scalars,
                info |-> [level |-> "error", decimation |-> 1,
                          original_count |-> original_count,
                          final_count |-> original_count,
                          reduction_percent |-> RatInt(0),
                          error |-> "IndexError"]]
          ELSE
          LET decimated_points == gather(points.val, decimated_indices)
              decimated_scalars ==
                  IF scalars.is_none THEN None
                  ELSE Some(decimate_scalars(scalars.val, decimated_indices))
              final_count == Len(decimated_points)
          IN [points |-> Some(decimated_points), scalars |-> decimated_scalars,
              info |-> [level |-> lod_level, decimation |-> decimation_factor,
                        original_count |-> original_count,
                        final_count |-> final_count,
                        reduction_percent |->
                            reduction_percent(original_count, final_count)]]

----------------------------------------------------------------------------
(* Inputs *)

\* A point array of n distinct points and an attribute column of m distinct
\* values: the decimation reads neither, it only moves them.
MkPoints(n) == [i \in 1..n |-> <<i - 1, (i - 1) % 3, (i - 1) % 2>>]
MkScalars(m, base) == [i \in 1..m |-> base + i - 1]

ScalarBases == {0, 100}

PointArrays == {None} \cup {Some(MkPoints(n)) : n \in 0..MaxPoints}

\* No column, a column aligned with the n points, or one that is one short.
ScalarArrays(n) ==
    {None} \cup {Some(MkScalars(m, b)) : m \in {n, n - 1} \cap Nat, b \in ScalarBases}

LevelInputs == LodLevels \cup {"ultra"}

ForceLevels == {None, Some("")} \cup {Some(l) : l \in LodLevels}

PointCounts == {0, 1, SmallThreshold - 1, SmallThreshold, SmallThreshold + 1,
                20 * SmallThreshold}

Clouds ==
    {None} \cup
    {[is_none |-> FALSE, count |-> c, min_coords |-> <<0, 0, 0>>,
      max_coords |-> <<dx, dy, 0>>] :
        c \in PointCounts, dx \in 0..MaxExtent, dy \in 0..MaxExtent}

\* The clouds of the scene-size calls, in units of 1 / SceneScale: none, an
\* empty one, and bounding boxes with diagonals below, at and above 1.0.
SceneClouds ==
    {None, [is_none |-> FALSE, count |-> 0, min_coords |-> <<0, 0, 0>>,
            max_coords |-> <<0, 0, 0>>]} \cup
    {[is_none |-> FALSE, count |-> c, min_coords |-> <<0, 0, 0>>,
      max_coords |-> <<dx, dy, 0>>] :
        c \in {1, 3}, dx \in 0..(SceneScale + 1), dy \in 0..(SceneScale + 1)}

Cameras ==
    {[position |-> <<k, 0, 0>>, focal_point |-> <<0, 0, 0>>] : k \in 0..MaxCam}
    \cup {[position |-> <<3, 4, 1>>, focal_point |-> <<0, 0, 1>>]}

Viewers ==
    {[has_plotter |-> FALSE, camera |-> None], [has_plotter |-> TRUE, camera |-> None]}
    \cup {[has_plotter |-> TRUE, camera |-> Some(c)] : c \in Cameras}

----------------------------------------------------------------------------
(* LODSystem: performance telemetry.  Render times are in milliseconds.    *)

\* LODSystem.__init__: performance_stats
InitialPerformanceStats ==
    [last_render_time |-> RatInt(0), average_render_time |-> RatInt(0),
     render_count |-> 0, auto_adjustments |-> 0]

\* alpha of the exponential moving average
alpha == Rat(1, 10)

\* target_render_time: 50 ms
target_render_time == RatInt(50)

\* Mutant of update_performance_stats: a slow average is counted as an
\* automatic adjustment.
update_performance_stats_adjusting(stats, render_time) ==
    LET average == IF stats.render_count = 0 THEN RatInt(render_time)
                   ELSE RatAdd(RatMul(alpha, RatInt(render_time)),
                               RatMul(RatSub(RatInt(1), alpha),
                                      stats.average_render_time))
    IN [last_render_time |-> RatInt(render_time),
        average_render_time |-> average,
        render_count |-> stats.render_count + 1,
        auto_adjustments |-> IF RatLT(target_render_time, average)
                             THEN stats.auto_adjustments + 1
                             ELSE stats.auto_adjustments]

\* LODSystem.update_performance_stats: the statistics after the call
update_performance_stats(stats, render_time) ==
    [stats EXCEPT
        !.last_render_time = RatInt(render_time),
        !.render_count = stats.render_count + 1,
        !.average_render_time =
            IF stats.render_count + 1 = 1 THEN RatInt(render_time)
            ELSE RatAdd(RatMul(alpha, RatInt(render_time)),
                        RatMul(RatSub(RatInt(1), alpha), stats.average_render_time))]

\* LODSystem.should_auto_adjust
should_auto_adjust(sys) ==
    IF ~sys.auto_mode THEN FALSE
    ELSE RatLT(target_render_time, sys.performance_stats.average_render_time)

----------------------------------------------------------------------------
(* The LOD system as a state machine *)

LodSys == [enabled |-> enabled, distance_thresholds |-> distance_thresholds,
           decimation_factors |-> decimation_factors, auto_mode |-> auto_mode,
           performance_stats |-> performance_stats]

LodIdle == [op |-> "none"]

InitLOD ==
    /\ enabled = TRUE
    /\ distance_thresholds = DefaultDistanceThresholds
    /\ decimation_factors = DefaultDecimationFactors
    /\ lod_call = LodIdle

\* LODSystem.__init__: the telemetry fields
InitTelemetry ==
    /\ auto_mode = TRUE
    /\ performance_stats = InitialPerformanceStats

\* LODSystem.set_enabled
set_enabled(b) ==
    /\ lod_call = LodIdle
    /\ enabled' = b
    /\ UNCHANGED <<distance_thresholds, decimation_factors, lod_call>>
    /\ UNCHANGED non_lod_vars

\* PointCloudViewer.set_performance_mode -> LODSystem.configure_thresholds
set_performance_mode(mode) ==
    /\ lod_call = LodIdle
    /\ distance_thresholds' = ModeDistanceThresholds(mode)
    /\ decimation_factors' = ModeDecimationFactors(mode)
    /\ UNCHANGED <<enabled, lod_call>>
    /\ UNCHANGED non_lod_vars

DetermineLodLevel(cloud, viewer, force_level) ==
    /\ lod_call = LodIdle
    /\ lod_call' = [op |-> "determine_lod_level", cloud |-> cloud, viewer |-> viewer,
                    force_level |-> force_level,
                    ret |-> determine_lod_level(LodSys, cloud, viewer, force_level)]
    /\ UNCHANGED <<enabled, distance_thresholds, decimation_factors>>
    /\ UNCHANGED non_lod_vars

ApplyLod(points, scalars, lod_level) ==
    /\ lod_call = LodIdle
    /\ lod_call' = [op |-> "apply_lod", points |-> points, scalars |-> scalars,
                    lod_level |-> lod_level,
                    ret |-> apply_lod(LodSys, points, scalars, lod_level)]
    /\ UNCHANGED <<enabled, distance_thresholds, decimation_factors>>
    /\ UNCHANGED non_lod_vars

\* LODSystem.calculate_scene_size on a cloud in units of 1 / SceneScale
CalculateSceneSize(cloud) ==
    /\ lod_call = LodIdle
    /\ lod_call' = [op |-> "calculate_scene_size", cloud |-> cloud,
                    ret |-> calculate_scene_size_in(cloud, SceneScale)]
    /\ UNCHANGED <<enabled, distance_thresholds, decimation_factors>>
    /\ UNCHANGED non_lod_vars

\* LODSystem.set_auto_mode
SetAutoMode(auto) ==
    /\ lod_call = LodIdle
    /\ auto_mode' = auto
    /\ UNCHANGED <<lod_vars, performance_stats, non_viewer_vars>>

\* LODSystem.update_performance_stats, as display_point_cloud calls it after
\* each render
UpdatePerformanceStats(render_time) ==
    /\ lod_call = LodIdle
    /\ performance_stats.render_count < MaxRenders
    /\ performance_stats' = update_performance_stats(performance_stats, render_time)
    /\ UNCHANGED <<lod_vars, auto_mode, non_viewer_vars>>

\* LODSystem.should_auto_adjust
ShouldAutoAdjust ==
    /\ lod_call = LodIdle
    /\ lod_call' = [op |-> "should_auto_adjust", ret |-> should_auto_adjust(LodSys)]
    /\ UNCHANGED <<enabled, distance_thresholds, decimation_factors>>
    /\ UNCHANGED non_lod_vars

\* The caller has consumed the result.
LodReturn ==
    /\ lod_call # LodIdle
    /\ lod_call' = LodIdle
    /\ UNCHANGED <<enabled, distance_thresholds, decimation_factors>>
    /\ UNCHANGED non_lod_vars

NextLOD ==
    \/ \E cloud \in Clouds, viewer \in Viewers, force_level \in ForceLevels :
           DetermineLodLevel(cloud, viewer, force_level)
    \/ \E b \in BOOLEAN : set_enabled(b)
    \/ \E mode \in PerformanceModes : set_performance_mode(mode)
    \/ \E points \in PointArrays :
           \E scalars \in ScalarArrays(IF points.is_none THEN 0 ELSE Len(points.val)),
              lod_level \in LevelInputs :
               ApplyLod(points, scalars, lod_level)
    \/ \E cloud \in SceneClouds : CalculateSceneSize(cloud)
    \/ LodReturn

----------------------------------------------------------------------------
(* ProfileCalculator.  Coordinates and tolerances are integers.  A station *)
(* of the line is the integer vector `at` over the denominator `den`; a    *)
(* distance along the line is a rational multiple of line_length; the      *)
(* line length and the standard deviations are carried as their squares.   *)

RatDiv(a, b) == Rat(a.n * b.d, a.d * b.n)
RatAbs(a) == [n |-> Abs(a.n), d |-> a.d]

RECURSIVE RatSum(_)
RatSum(seq) == IF seq = <<>> THEN RatInt(0) ELSE RatAdd(Head(seq), RatSum(Tail(seq)))

RECURSIVE IntSum(_)
IntSum(seq) == IF seq = <<>> THEN 0 ELSE Head(seq) + IntSum(Tail(seq))

\* The largest and the smallest of a non-empty set of rationals.
RatMaxOf(S) == CHOOSE v \in S : \A w \in S : RatLE(w, v)
RatMinOf(S) == CHOOSE v \in S : \A w \in S : RatLE(v, w)

\* arr[mask] for a boolean mask: the entries whose mask is true, in order.
RECURSIVE BoolIndex(_, _)
BoolIndex(arr, mask) ==
    IF arr = <<>> THEN <<>>
    ELSE IF Head(mask) THEN <<Head(arr)>> \o BoolIndex(Tail(arr), Tail(mask))
    ELSE BoolIndex(Tail(arr), Tail(mask))

\* Mutant of validate_inputs: the test for a degenerate line is missing.
validate_inputs_no_line_test(points, start_point, end_point) ==
    IF points.is_none \/ Len(points.val) = 0
    THEN "No points provided for profile calculation"
    ELSE IF start_point.is_none \/ end_point.is_none
    THEN "Invalid start or end point"
    ELSE ""

\* The entry checks of calculate_profile: the message of the ValueError they
\* raise, "" when the inputs pass.
validate_inputs(points, start_point, end_point) ==
    IF points.is_none \/ Len(points.val) = 0
    THEN "No points provided for profile calculation"
    ELSE IF start_point.is_none \/ end_point.is_none
    THEN "Invalid start or end point"
    ELSE IF start_point.val = end_point.val
    THEN "Start and end points are identical"
    ELSE ""

\* np.linspace(0, 1, num_samples) along the line: station i (numpy index) is
\* start + i / (num_samples - 1) * (end - start); a single station is start.
interpolate_line_points(start, end, num_samples) ==
    LET den == IF num_samples = 1 THEN 1 ELSE num_samples - 1
    IN [k \in 1..num_samples |->
           [at |-> <<start[1] * den + (k - 1) * (end[1] - start[1]),
                     start[2] * den + (k - 1) * (end[2] - start[2]),
                     start[3] * den + (k - 1) * (end[3] - start[3])>>,
            den |-> den]]

\* Mutant of query_ball_point: a point at exactly the tolerance is left out.
query_ball_point_strict(points, sample_point, tolerance) ==
    {j \in 1..Len(points) :
        /\ tolerance >= 0
        /\ (points[j][1] * sample_point.den - sample_point.at[1])
               * (points[j][1] * sample_point.den - sample_point.at[1])
           + (points[j][2] * sample_point.den - sample_point.at[2])
               * (points[j][2] * sample_point.den - sample_point.at[2])
           < tolerance * tolerance * sample_point.den * sample_point.den}

\* tree.query_ball_point(sample_point[:2], tolerance): the positions of the
\* points whose horizontal distance to the station is <= tolerance.
query_ball_point(points, sample_point, tolerance) ==
    {j \in 1..Len(points) :
        /\ tolerance >= 0
        /\ (points[j][1] * sample_point.den - sample_point.at[1])
               * (points[j][1] * sample_point.den - sample_point.at[1])
           + (points[j][2] * sample_point.den - sample_point.at[2])
               * (points[j][2] * sample_point.den - sample_point.at[2])
           <= tolerance * tolerance * sample_point.den * sample_point.den}

\* Mutant of distance_along_line: the index is divided by num_samples.
distance_along_line_off_by_one(i, num_samples) == Rat(i, num_samples)

\* (i / (num_samples - 1)) * line_length, in units of line_length
distance_along_line(i, num_samples) == Rat(i, num_samples - 1)

\* min, max, mean and (squared) population standard deviation of the heights
calculate_height_statistics(heights) ==
    IF Len(heights) = 0
    THEN [min |-> NaN, max |-> NaN, mean |-> NaN, std |-> NaN]
    ELSE LET n == Len(heights)
             values == {heights[k] : k \in 1..n}
             total == IntSum(heights)
             squares == IntSum([k \in 1..n |-> heights[k] * heights[k]])
         IN [min |-> RatInt(CHOOSE v \in values : \A w \in values : v <= w),
             max |-> RatInt(CHOOSE v \in values : \A w \in values : w <= v),
             mean |-> Rat(total, n),
             std |-> IF n > 1 THEN Rat(n * squares - total * total, n * n)
                     ELSE RatInt(0)]

\* One pass of the station loop: the row appended for station i.
station_row(points, sample_point, i, num_samples, tolerance) ==
    LET indices == query_ball_point(points, sample_point, tolerance)
        distance == distance_along_line(i, num_samples)
        heights == BoolIndex([j \in 1..Len(points) |-> points[j][3]],
                             [j \in 1..Len(points) |-> j \in indices])
    IN IF Cardinality(indices) > 0
       THEN LET stats == calculate_height_statistics(heights)
            IN [distance |-> distance, min |-> stats.min, max |-> stats.max,
                mean |-> stats.mean, std |-> stats.std, count |-> Len(heights)]
       ELSE [distance |-> distance, min |-> NaN, max |-> NaN, mean |-> NaN,
             std |-> NaN, count |-> 0]

\* np.interp(x, xp, fp, left=np.nan, right=np.nan)
np_interp(x, xp, fp) ==
    LET last == Len(xp)
    IN IF RatLT(x, xp[1]) \/ RatLT(xp[last], x) THEN NaN
       ELSE IF x = xp[last] THEN fp[last]
       ELSE LET j == CHOOSE j \in 1..(last - 1) : RatLE(xp[j], x) /\ RatLT(x, xp[j + 1])
                slope == RatDiv(RatSub(fp[j + 1], fp[j]), RatSub(xp[j + 1], xp[j]))
            IN RatAdd(RatMul(slope, RatSub(x, xp[j])), fp[j])

\* Mutant of too_few_valid: the limit is one too high.
too_few_valid_off_by_one(valid_mask) ==
    Cardinality({i \in 1..Len(valid_mask) : valid_mask[i]}) < 3

\* np.sum(valid_mask) < 2
too_few_valid(valid_mask) ==
    Cardinality({i \in 1..Len(valid_mask) : valid_mask[i]}) < 2

\* The body of the loop of interpolate_missing_data, for one height series.
interpolate_series(values, distances) ==
    LET valid_mask == [i \in 1..Len(values) |-> ~IsNaN(values[i])]
    IN IF too_few_valid(valid_mask) THEN values
       ELSE LET valid_distances == BoolIndex(distances, valid_mask)
                valid_values == BoolIndex(values, valid_mask)
                interpolated == [i \in 1..Len(values) |->
                                    np_interp(distances[i], valid_distances, valid_values)]
                interp_mask == [i \in 1..Len(values) |->
                                   /\ RatLE(valid_distances[1], distances[i])
                                   /\ RatLE(distances[i],
                                            valid_distances[Len(valid_distances)])]
            IN [i \in 1..Len(values) |->
                   IF IsNaN(values[i]) /\ interp_mask[i] THEN interpolated[i]
                   ELSE values[i]]

interpolate_missing_data(profile_data) ==
    [profile_data EXCEPT
        !.min_heights = interpolate_series(profile_data.min_heights, profile_data.distances),
        !.max_heights = interpolate_series(profile_data.max_heights, profile_data.distances),
        !.mean_heights = interpolate_series(profile_data.mean_heights,
                                            profile_data.distances)]

\* Mutant of total_elevation_change: the difference keeps its sign.
total_elevation_change_signed(valid_mean) ==
    IF Len(valid_mean) > 1
    THEN RatSub(valid_mean[Len(valid_mean)], valid_mean[1])
    ELSE RatInt(0)

\* abs(valid_mean[-1] - valid_mean[0]) if len(valid_mean) > 1 else 0.0
total_elevation_change(valid_mean) ==
    IF Len(valid_mean) > 1
    THEN RatAbs(RatSub(valid_mean[Len(valid_mean)], valid_mean[1]))
    ELSE RatInt(0)

calculate_profile_summary(profile_data) ==
    LET valid_mean == SelectSeq(profile_data.mean_heights, LAMBDA v : ~IsNaN(v))
        valid_max == {v \in {profile_data.max_heights[i] :
                                i \in 1..Len(profile_data.max_heights)} : ~IsNaN(v)}
        valid_min == {v \in {profile_data.min_heights[i] :
                                i \in 1..Len(profile_data.min_heights)} : ~IsNaN(v)}
    IN IF Len(valid_mean) = 0
       THEN [total_elevation_change |-> RatInt(0), max_elevation |-> NaN,
             min_elevation |-> NaN, mean_elevation |-> NaN,
             elevation_range |-> RatInt(0), valid_samples |-> 0,
             coverage_percentage |-> RatInt(0)]
       ELSE [total_elevation_change |-> total_elevation_change(valid_mean),
             max_elevation |-> RatMaxOf(valid_max),
             min_elevation |-> RatMinOf(valid_min),
             mean_elevation |-> RatDiv(RatSum(valid_mean), RatInt(Len(valid_mean))),
             elevation_range |-> RatSub(RatMaxOf(valid_max), RatMinOf(valid_min)),
             valid_samples |-> Len(valid_mean),
             coverage_percentage |->
                 Rat(Len(valid_mean) * 100, Len(profile_data.distances))]

\* What a call of calculate_profile does: the exception it raises ("" when it
\* returns), whether it got as far as storing its arguments in self, and the
\* profile it returns.
Raise(exception, message, stored) ==
    [raised |-> exception, message |-> message, stored |-> stored, ret |-> None]

calculate_profile(points, start_point, end_point, num_samples, tolerance) ==
    LET invalid == validate_inputs(points, start_point, end_point)
    IN IF invalid # "" THEN Raise("ValueError", invalid, FALSE)
       ELSE IF num_samples < 0
       THEN Raise("ValueError", "Number of samples must be non-negative", TRUE)
       ELSE IF num_samples = 1
       THEN Raise("ZeroDivisionError", "division by zero", TRUE)
       ELSE
       LET line_points == interpolate_line_points(start_point.val, end_point.val,
                                                  num_samples)
           rows == [k \in 1..num_samples |->
                       station_row(points.val, line_points[k], k - 1, num_samples,
                                   tolerance)]
           profile_data ==
               [distances |-> [k \in 1..num_samples |-> rows[k].distance],
                min_heights |-> [k \in 1..num_samples |-> rows[k].min],
                max_heights |-> [k \in 1..num_samples |-> rows[k].max],
                mean_heights |-> [k \in 1..num_samples |-> rows[k].mean],
                std_heights |-> [k \in 1..num_samples |-> rows[k].std],
                point_counts |-> [k \in 1..num_samples |-> rows[k].count],
                line_start |-> start_point.val,
                line_end |-> end_point.val,
                total_length |-> NormSq(Sub3(end_point.val, start_point.val))]
           interpolated == interpolate_missing_data(profile_data)
       IN [raised |-> "", message |-> "", stored |-> TRUE,
           ret |-> Some([distances |-> interpolated.distances,
                         min_heights |-> interpolated.min_heights,
                         max_heights |-> interpolated.max_heights,
                         mean_heights |-> interpolated.mean_heights,
                         std_heights |-> interpolated.std_heights,
                         point_counts |-> interpolated.point_counts,
                         line_start |-> interpolated.line_start,
                         line_end |-> interpolated.line_end,
                         total_length |-> interpolated.total_length,
                         summary |-> calculate_profile_summary(interpolated)])]

----------------------------------------------------------------------------
(* Inputs of calculate_profile *)

SeqsUpTo(S, n) == UNION {[1..k -> S] : k \in 0..n}

CloudPoints == {<<1, 0, 0>>, <<1, 0, 3>>, <<2, 0, 3>>, <<3, 0, 0>>, <<3, 0, 3>>}

ProfileClouds == {None} \cup {Some(c) : c \in SeqsUpTo(CloudPoints, MaxCloud)}

LineStarts == {None, Some(<<0, 0, 0>>)}

LineEnds == {None, Some(<<0, 0, 0>>), Some(<<4, 0, 0>>), Some(<<2, 2, 0>>),
             Some(<<0, 0, 2>>)}

SampleCounts == -1..MaxSamples

Tolerances == {0, 1}

----------------------------------------------------------------------------
(* The profile calculator as a state machine: one calculator, one call *)

ProfIdle == [op |-> "none"]

\* ProfileCalculator.__init__
InitProfile ==
    /\ calc_points = None
    /\ calc_line_start = None
    /\ calc_line_end = None
    /\ prof_call = ProfIdle
    /\ calc_calls = 0

\* the fields of the calculator
CalculatorSelf ==
    [points |-> calc_points, line_start |-> calc_line_start,
     line_end |-> calc_line_end]

\* Mutant of calculate_profile_on: the spatial index is built from the points
\* the calculator kept from its previous call.
calculate_profile_on_stale(self, points, start_point, end_point, num_samples, tolerance) ==
    calculate_profile(IF self.points.is_none THEN points ELSE self.points,
                      start_point, end_point, num_samples, tolerance)

\* calculate_profile as a method of the calculator self: it assigns
\* self.points, self.line_start and self.line_end and reads none of them.
calculate_profile_on(self, points, start_point, end_point, num_samples, tolerance) ==
    calculate_profile(points, start_point, end_point, num_samples, tolerance)

\* One call of the method on the calculator of the model.
ProfileCall(points, start_point, end_point, num_samples, tolerance) ==
    LET out == calculate_profile_on(CalculatorSelf, points, start_point,
                                    end_point, num_samples, tolerance)
    IN /\ prof_call' = [op |-> "calculate_profile", points |-> points,
                        start_point |-> start_point, end_point |-> end_point,
                        num_samples |-> num_samples, tolerance |-> tolerance,
                        raised |-> out.raised, message |-> out.message,
                        ret |-> out.ret, calculator |-> CalculatorSelf]
       /\ calc_calls' = calc_calls + 1
       /\ IF out.stored
          THEN /\ calc_points' = points
               /\ calc_line_start' = start_point
               /\ calc_line_end' = end_point
          ELSE UNCHANGED <<calc_points, calc_line_start, calc_line_end>>

\* the first call on a new calculator
CalculateProfile(points, start_point, end_point, num_samples, tolerance) ==
    /\ prof_call = ProfIdle
    /\ ProfileCall(points, start_point, end_point, num_samples, tolerance)
    /\ UNCHANGED non_prof_vars

\* a call on the calculator whatever it has served before:
\* LidarViewer._on_profile_line_completed for one more line or layer
CalculateAgain(points, start_point, end_point, num_samples, tolerance) ==
    /\ calc_calls < MaxCalls
    /\ ProfileCall(points, start_point, end_point, num_samples, tolerance)
    /\ UNCHANGED non_prof_vars

\* ProfileViewer.display_profile, as LidarViewer._on_profile_line_completed
\* calls it with the profile returned and the arguments of the call
DisplayProfile ==
    /\ prof_call # ProfIdle
    /\ prof_call.raised = ""
    /\ current_points' = prof_call.points
    /\ current_start' = prof_call.start_point
    /\ current_end' = prof_call.end_point
    /\ UNCHANGED <<prof_vars, lod_vars, telemetry_vars, cross_vars, color_vars,
                   update_vars, draw_vars,
                   manager_vars, profile_layer_id, layer_call>>

\* ProfileViewer._recalculate_profile with the values of the two spin boxes;
\* without displayed data it only warns
RecalculateProfile(num_samples, tolerance) ==
    /\ ~current_points.is_none
    /\ ~current_start.is_none
    /\ ~current_end.is_none
    /\ calc_calls < MaxCalls
    /\ ProfileCall(current_points, current_start, current_end, num_samples,
                   tolerance)
    /\ UNCHANGED non_prof_vars

NextProfile ==
    \E points \in ProfileClouds, start_point \in LineStarts, end_point \in LineEnds,
       num_samples \in SampleCounts, tolerance \in Tolerances :
        CalculateProfile(points, start_point, end_point, num_samples, tolerance)

----------------------------------------------------------------------------
(* Cross-section extraction: ProfileCalculator.get_cross_section_points   *)
(* (exact distance to the segment) and                                     *)
(* ProfileViewer._extract_cross_section_points (distance to the nearest    *)
(* of many stations on the segment).  Horizontal distances are carried     *)
(* squared.                                                                *)

Max(a, b) == IF a >= b THEN a ELSE b

\* int(sqrt(n))
ISqrt(n) == CHOOSE k \in 0..n : k * k <= n /\ (k + 1) * (k + 1) > n

\* Mutant of within_tolerance: one unit of slack.
within_tolerance_slack(distance_sq, tolerance) ==
    tolerance >= 0
        /\ RatLE(distance_sq, RatInt((tolerance + 1) * (tolerance + 1)))

\* `distance <= tolerance`, the distance given by its square
within_tolerance(distance_sq, tolerance) ==
    tolerance >= 0 /\ RatLE(distance_sq, RatInt(tolerance * tolerance))

\* ProfileCalculator.point_to_line_distance_2d, squared: the projection on
\* the line is clipped to [0, line_len].  dot is proj_length * line_len.
point_to_line_distance_2d(point, line_start, line_end) ==
    LET lx == line_end[1] - line_start[1]
        ly == line_end[2] - line_start[2]
        px == point[1] - line_start[1]
        py == point[2] - line_start[2]
        len_sq == lx * lx + ly * ly
        dot == px * lx + py * ly
        cross == px * ly - py * lx
    IN IF len_sq = 0 THEN RatInt(px * px + py * py)
       ELSE IF dot <= 0 THEN RatInt(px * px + py * py)
       ELSE IF dot >= len_sq
            THEN RatInt((px - lx) * (px - lx) + (py - ly) * (py - ly))
       ELSE Rat(cross * cross, len_sq)

\* np.dot(point - line_start, line_unitvec), times line_length; 0 when the
\* line has length 0 (line_unitvec is then zeros(3))
line_distance(point, line_start, line_end) ==
    LET v == Sub3(line_end, line_start)
        w == Sub3(point, line_start)
    IN w[1] * v[1] + w[2] * v[2] + w[3] * v[3]

NoCrossSection == [points |-> << >>, line_distances |-> << >>,
                   perp_distances |-> << >>]

\* ProfileCalculator.get_cross_section_points
get_cross_section_points(points, start_point, end_point, tolerance) ==
    IF points.is_none \/ Len(points.val) = 0
    THEN [raised |-> "", ret |-> NoCrossSection]
    ELSE LET perp == [i \in 1..Len(points.val) |->
                         point_to_line_distance_2d(points.val[i], start_point,
                                                   end_point)]
             mask == [i \in 1..Len(points.val) |->
                         within_tolerance(perp[i], tolerance)]
             cross_section_points == BoolIndex(points.val, mask)
         IN IF Len(cross_section_points) = 0
            THEN [raised |-> "", ret |-> NoCrossSection]
            ELSE [raised |-> "",
                  ret |-> [points |-> cross_section_points,
                           line_distances |->
                               [i \in 1..Len(cross_section_points) |->
                                   line_distance(cross_section_points[i],
                                                 start_point, end_point)],
                           perp_distances |-> BoolIndex(perp, mask),
                           line_start |-> start_point,
                           line_end |-> end_point,
                           total_length |->
                               NormSq(Sub3(end_point, start_point))]]

MinLineSamples == 100
LineSamplesPerUnit == 10

\* max(100, int(np.linalg.norm(end_point - start_point) * 10))
num_line_samples(start_point, end_point) ==
    Max(MinLineSamples,
        ISqrt(LineSamplesPerUnit * LineSamplesPerUnit
                  * NormSq(Sub3(end_point, start_point))))

\* ProfileViewer._interpolate_line_points
_interpolate_line_points(start, end, num_samples) ==
    interpolate_line_points(start, end, num_samples)

\* Mutant of nearest_station_distance: every point is found on a station.
nearest_station_distance_zero(point, line_points) == RatInt(0)

\* line_tree.query(point[:2], k=1): the squared horizontal distance from the
\* point to the nearest of the line points (which share one denominator)
nearest_station_distance(point, line_points) ==
    LET den == line_points[1].den
        ds == {(point[1] * den - line_points[k].at[1])
                   * (point[1] * den - line_points[k].at[1])
               + (point[2] * den - line_points[k].at[2])
                   * (point[2] * den - line_points[k].at[2]) :
               k \in 1..Len(line_points)}
    IN Rat(CHOOSE m \in ds : \A x \in ds : m <= x, den * den)

\* np.where((points == point).all(axis=1))[0][0]: the first row equal to point
first_equal_row(points, point) ==
    CHOOSE j \in 1..Len(points) :
        points[j] = point /\ \A k \in 1..(j - 1) : points[k] # point

\* list(point_indices): the indices collected in a set, in the set's order
\* (ascending for the small non-negative integers of the model)
RECURSIVE SortedSeq(_)
SortedSeq(S) ==
    IF S = {} THEN << >>
    ELSE LET m == CHOOSE x \in S : \A y \in S : x <= y
         IN <<m>> \o SortedSeq(S \ {m})

\* ProfileViewer._extract_cross_section_points
_extract_cross_section_points(points, start_point, end_point, tolerance) ==
    IF points.is_none
    THEN [raised |-> "TypeError", ret |-> None]
    ELSE LET line_points ==
                 _interpolate_line_points(start_point, end_point,
                                          num_line_samples(start_point, end_point))
             point_indices ==
                 {first_equal_row(points.val, points.val[i]) :
                     i \in {j \in 1..Len(points.val) :
                               within_tolerance(
                                   nearest_station_distance(points.val[j],
                                                            line_points),
                                   tolerance)}}
         IN [raised |-> "",
             ret |-> Some(gather(points.val,
                                 [k \in 1..Cardinality(point_indices) |->
                                     SortedSeq(point_indices)[k] - 1]))]

----------------------------------------------------------------------------
(* Inputs of the cross-section calls *)

CrossCloudPoints == {<<0, 1, 0>>, <<1, 1, 0>>, <<2, 0, 3>>, <<5, 0, 0>>,
                     <<2, 3, 0>>}

CrossClouds == {None} \cup {Some(c) : c \in SeqsUpTo(CrossCloudPoints, MaxCross)}

CrossStart == <<0, 0, 0>>

\* a line along x, the degenerate line, a vertical line (no horizontal
\* extent), a diagonal line, and a line long enough for more than 100 stations
CrossEnds == {<<4, 0, 0>>, <<0, 0, 0>>, <<0, 0, 2>>, <<3, 4, 0>>, <<11, 0, 0>>}

CrossTolerances == {0, 1, 2}

----------------------------------------------------------------------------
(* The cross-section extraction as a state machine: one call *)

CrossIdle == [op |-> "none"]

InitCross == cross_call = CrossIdle

GetCrossSectionPoints(points, start_point, end_point, tolerance) ==
    /\ cross_call = CrossIdle
    /\ LET out == get_cross_section_points(points, start_point, end_point,
                                           tolerance)
       IN cross_call' = [op |-> "get_cross_section_points", points |-> points,
                         start_point |-> start_point, end_point |-> end_point,
                         tolerance |-> tolerance, raised |-> out.raised,
                         ret_points |-> Some(out.ret.points), ret |-> out.ret]
    /\ UNCHANGED non_cross_vars

ExtractCrossSectionPoints(points, start_point, end_point, tolerance) ==
    /\ cross_call = CrossIdle
    /\ LET out == _extract_cross_section_points(points, start_point, end_point,
                                                tolerance)
       IN cross_call' = [op |-> "_extract_cross_section_points",
                         points |-> points,
                         start_point |-> start_point, end_point |-> end_point,
                         tolerance |-> tolerance, raised |-> out.raised,
                         ret_points |-> out.ret, ret |-> out.ret]
    /\ UNCHANGED non_cross_vars

NextCross ==
    \E points \in CrossClouds, end_point \in CrossEnds,
       tolerance \in CrossTolerances :
        \/ GetCrossSectionPoints(points, CrossStart, end_point, tolerance)
        \/ ExtractCrossSectionPoints(points, CrossStart, end_point, tolerance)

----------------------------------------------------------------------------
(* The layer manager (layers/layer_db.py) and the creation of a            *)
(* cross-section layer from the profile viewer                             *)
(* (ProfileViewer.create_cross_section_layer).  A layer is a record        *)
(* [file_path, points, las, visible]; las is None or a record of columns.  *)

\* find_original_point_indices is called with tolerance=1e-3: thousandths
MatchTolerance == 1
Thousand == 1000

\* np.argmin(distances): the first row of original_points closest to the point
closest_idx(subset_point, original_points) ==
    CHOOSE j \in 1..Len(original_points) :
        /\ \A k \in 1..Len(original_points) :
               NormSq(Sub3(original_points[j], subset_point))
                   <= NormSq(Sub3(original_points[k], subset_point))
        /\ \A k \in 1..(j - 1) :
               NormSq(Sub3(original_points[k], subset_point))
                   > NormSq(Sub3(original_points[j], subset_point))

\* the (0-based) index appended for the i-th subset point
matched_idx(subset_points, original_points, i) ==
    closest_idx(subset_points[i], original_points) - 1

\* fileio.pdal_exporter.find_original_point_indices; an empty original_points
\* makes np.argmin raise, and the except clause returns no indices
find_original_point_indices(subset_points, original_points, tolerance) ==
    IF Len(original_points) = 0 THEN << >>
    ELSE LET close(i) ==
                 NormSq(Sub3(original_points[closest_idx(subset_points[i],
                                                         original_points)],
                             subset_points[i])) * Thousand * Thousand
                     < tolerance * tolerance
             mask == [i \in 1..Len(subset_points) |-> close(i)]
         IN BoolIndex([i \in 1..Len(subset_points) |->
                          matched_idx(subset_points, original_points, i)],
                      mask)

\* values[point_indices] for a column as long as original_points, the value
\* itself otherwise
gather_attributes(original_las_data, original_points, point_indices) ==
    [key \in DOMAIN original_las_data |->
        IF Len(original_las_data[key]) = Len(original_points)
        THEN gather(original_las_data[key], point_indices)
        ELSE original_las_data[key]]

\* the minimal LAS-like structure of _create_cross_section_layer_direct
fake_las_data(points) ==
    [X |-> [i \in 1..Len(points) |-> points[i][1]],
     Y |-> [i \in 1..Len(points) |-> points[i][2]],
     Z |-> [i \in 1..Len(points) |-> points[i][3]],
     intensity |-> [i \in 1..Len(points) |-> 0],
     classification |-> [i \in 1..Len(points) |-> 1]]

\* f"{base_name}_{n}pts_tol{tolerance}m"
layer_name(original_file, n, tolerance) ==
    [base |-> "CrossSection", of |-> original_file, pts |-> n, tol |-> tolerance]

\* The layer that ProfileViewer._create_cross_section_layer_with_attributes
\* (or its fallback _create_cross_section_layer_direct) hands to add_layer,
\* with the method used and the index list.
cross_section_layer(mgr_layers, mgr_current, points, tolerance) ==
    LET has_current == Truthy(mgr_current) /\ mgr_current.val \in DOMAIN mgr_layers
        original_layer == mgr_layers[mgr_current.val]
        original_file == IF has_current THEN original_layer.file_path ELSE ""
        direct == [method |-> "direct", point_indices |-> << >>,
                   layer |-> [file_path |-> layer_name(original_file, Len(points),
                                                       tolerance),
                              points |-> Some(points),
                              las |-> Some(fake_las_data(points)),
                              visible |-> TRUE]]
    IN IF ~has_current THEN direct
       ELSE IF original_layer.points.is_none \/ original_layer.las.is_none
       THEN direct
       ELSE LET point_indices ==
                    find_original_point_indices(points, original_layer.points.val,
                                                MatchTolerance)
            IN IF Len(point_indices) = 0 THEN direct
               ELSE [method |-> "enhanced", point_indices |-> point_indices,
                     layer |-> [file_path |-> layer_name(original_file,
                                                         Len(point_indices),
                                                         tolerance),
                                points |-> Some(gather(original_layer.points.val,
                                                       point_indices)),
                                las |-> Some(gather_attributes(
                                                 original_layer.las.val,
                                                 original_layer.points.val,
                                                 point_indices)),
                                visible |-> TRUE]]

----------------------------------------------------------------------------
(* Inputs of the layer operations *)

LoadedIds == {"a", "b"}
CrossSectionId == "x"      \* the uuid that generate_layer_id hands out

NearA == <<0, 1, 0>>
NearB == <<2, 0, 3>>
FarC == <<2, 3, 0>>

\* Files that can be loaded: a classified cloud, the same cloud reclassified
\* and stored in another order, a cloud with a repeated point, a cloud with a
\* header column next to the per-point column, and a cloud without LAS data.
LoadableLayers ==
    {[file_path |-> "tile.las", points |-> Some(<<NearA, NearB, FarC>>),
      las |-> Some([Class |-> <<1, 2, 3>>]), visible |-> TRUE],
     [file_path |-> "tile_v2.las", points |-> Some(<<NearB, NearA>>),
      las |-> Some([Class |-> <<5, 6>>]), visible |-> TRUE],
     [file_path |-> "dup.las", points |-> Some(<<NearA, NearA, NearB>>),
      las |-> Some([Class |-> <<1, 2, 3>>]), visible |-> TRUE],
     [file_path |-> "hdr.las", points |-> Some(<<FarC, NearB>>),
      las |-> Some([Class |-> <<7, 8>>, scale |-> <<1>>]), visible |-> TRUE],
     [file_path |-> "xyz.txt", points |-> Some(<<NearA, FarC>>),
      las |-> None, visible |-> TRUE]}

ProfileEnds == {<<4, 0, 0>>, <<0, 0, 0>>}

LayerTolerances == {1, 2}

----------------------------------------------------------------------------
(* The layer manager and the profile viewer as a state machine *)

LayerIdle == [op |-> "none"]

\* LayerManager.__init__ and ProfileViewer.__init__
InitLayer ==
    /\ layers = << >>
    /\ layer_order = << >>
    /\ current_layer_id = None
    /\ current_file_path = None
    /\ current_points = None
    /\ current_start = None
    /\ current_end = None
    /\ profile_layer_id = None
    /\ layer_call = LayerIdle

\* self.layers[uuid] = {...}
put_layer(mgr_layers, uuid, layer) ==
    [u \in DOMAIN mgr_layers \cup {uuid} |->
        IF u = uuid THEN layer ELSE mgr_layers[u]]

\* the keys of the dict after self.layers[uuid] = {...}: a new key goes last
put_key(order, uuid) ==
    IF \E i \in 1..Len(order) : order[i] = uuid THEN order ELSE Append(order, uuid)

\* the dict after del self.layers[uuid]
del_layer(mgr_layers, uuid) == [u \in DOMAIN mgr_layers \ {uuid} |-> mgr_layers[u]]

\* the keys of the dict after del self.layers[uuid]
del_key(order, uuid) == SelectSeq(order, LAMBDA u : u # uuid)

\* LayerManager.add_layer, for a file that is loaded
AddLayer(uuid, layer) ==
    /\ uuid \notin DOMAIN layers
    /\ layers' = put_layer(layers, uuid, layer)
    /\ layer_order' = put_key(layer_order, uuid)
    /\ current_layer_id' = Some(uuid)
    /\ current_file_path' = Some(layer.file_path)
    /\ layer_call' = [op |-> "add_layer", uuid |-> uuid]
    /\ UNCHANGED <<viewer_vars, non_layer_vars>>

\* LidarViewer._on_layer_selected -> LayerManager.set_current_layer
SetCurrentLayer(uuid) ==
    /\ uuid \in DOMAIN layers
    /\ current_layer_id' = Some(uuid)
    /\ current_file_path' = Some(layers[uuid].file_path)
    /\ layer_call' = [op |-> "set_current_layer", uuid |-> uuid]
    /\ UNCHANGED <<layers, layer_order, viewer_vars, non_layer_vars>>

\* LayerManager.remove_layer
RemoveLayer(uuid) ==
    /\ uuid \in DOMAIN layers
    /\ layers' = del_layer(layers, uuid)
    /\ layer_order' = del_key(layer_order, uuid)
    /\ IF current_layer_id = Some(uuid)
       THEN current_layer_id' = None /\ current_file_path' = None
       ELSE UNCHANGED <<current_layer_id, current_file_path>>
    /\ layer_call' = [op |-> "remove_layer", uuid |-> uuid]
    /\ UNCHANGED <<viewer_vars, non_layer_vars>>

\* LayerManager.set_layer_visible
SetLayerVisible(uuid, visible) ==
    /\ uuid \in DOMAIN layers
    /\ layers' = [layers EXCEPT ![uuid].visible = visible]
    /\ layer_call' = [op |-> "set_layer_visible", uuid |-> uuid]
    /\ UNCHANGED <<layer_order, current_layer_id, current_file_path, viewer_vars,
                   non_layer_vars>>

\* MainWindow._on_layer_removed_debug (the Remove button): the layer is
\* deleted from the dict; if it was the current one, the first remaining
\* layer becomes current, and with no layer left the handler calls
\* set_current_layer(None), which changes nothing because None is not a key.
OnLayerRemoved(uuid) ==
    /\ uuid \in DOMAIN layers
    /\ layers' = del_layer(layers, uuid)
    /\ layer_order' = del_key(layer_order, uuid)
    /\ LET remaining == del_key(layer_order, uuid)
       IN IF current_layer_id = Some(uuid) /\ remaining # << >>
          THEN /\ current_layer_id' = Some(remaining[1])
               /\ current_file_path' = Some(layers[remaining[1]].file_path)
          ELSE UNCHANGED <<current_layer_id, current_file_path>>
    /\ layer_call' = [op |-> "_on_layer_removed_debug", uuid |-> uuid]
    /\ UNCHANGED <<viewer_vars, non_layer_vars>>

\* MainWindow._on_profile_line_completed, the callback of the line drawer:
\* without a current layer or without points it returns at once; else the
\* profile of the current layer is calculated and, unless the calculation
\* raises, handed to ProfileViewer.display_profile together with the points
\* and the line; then drawing is switched off and picking is disabled on
\* the plotter.
_on_profile_line_completed(start_point, end_point) ==
    LET has_layer == /\ Truthy(current_layer_id)
                     /\ current_layer_id.val \in DOMAIN layers
        points == IF has_layer THEN layers[current_layer_id.val].points ELSE None
        returns_early == ~has_layer \/ points.is_none \/ Len(points.val) = 0
        shown == /\ ~returns_early
                 /\ validate_inputs(points, Some(start_point), Some(end_point)) = ""
    IN /\ layer_call' = [op |-> "profile_line_completed", shown |-> shown]
       /\ IF shown
          THEN /\ current_points' = points
               /\ current_start' = Some(start_point)
               /\ current_end' = Some(end_point)
               /\ profile_layer_id' = current_layer_id
          ELSE UNCHANGED viewer_vars
       /\ IF returns_early
          THEN UNCHANGED <<is_drawing, picking_callback>>
          ELSE is_drawing' = FALSE /\ picking_callback' = None

\* The callback for a line over a layer that is current.
ProfileLineCompleted(start_point, end_point) ==
    /\ Truthy(current_layer_id)
    /\ current_layer_id.val \in DOMAIN layers
    /\ _on_profile_line_completed(start_point, end_point)
    /\ UNCHANGED <<manager_vars, non_layer_draw_vars, drawer_vars, picker_vars,
                   session_vars>>

\* ProfileViewer.create_cross_section_layer
CreateCrossSectionLayer(tolerance) ==
    /\ CrossSectionId \notin DOMAIN layers
    /\ IF current_points.is_none \/ current_start.is_none \/ current_end.is_none
       THEN /\ layer_call' = [op |-> "create_cross_section_layer",
                              tolerance |-> tolerance, method |-> "unavailable"]
            /\ UNCHANGED manager_vars
       ELSE LET cross_section_points ==
                    _extract_cross_section_points(current_points, current_start.val,
                                                  current_end.val, tolerance).ret.val
            IN IF Len(cross_section_points) = 0
               THEN /\ layer_call' = [op |-> "create_cross_section_layer",
                                      tolerance |-> tolerance,
                                      method |-> "no_points"]
                    /\ UNCHANGED manager_vars
               ELSE LET made == cross_section_layer(layers, current_layer_id,
                                                    cross_section_points, tolerance)
                    IN /\ layer_call' = [op |-> "create_cross_section_layer",
                                         tolerance |-> tolerance,
                                         method |-> made.method,
                                         original_layer_id |-> current_layer_id,
                                         cross_section_points |->
                                             cross_section_points,
                                         point_indices |-> made.point_indices]
                       /\ layers' = put_layer(layers, CrossSectionId, made.layer)
                       /\ layer_order' = put_key(layer_order, CrossSectionId)
                       /\ current_layer_id' = Some(CrossSectionId)
                       /\ current_file_path' = Some(made.layer.file_path)
    /\ UNCHANGED <<viewer_vars, non_layer_vars>>

NextLayer ==
    \/ \E uuid \in LoadedIds, layer \in LoadableLayers : AddLayer(uuid, layer)
    \/ \E uuid \in LoadedIds \cup {CrossSectionId} : SetCurrentLayer(uuid)
    \/ \E end_point \in ProfileEnds : ProfileLineCompleted(CrossStart, end_point)
    \/ \E tolerance \in LayerTolerances : CreateCrossSectionLayer(tolerance)

----------------------------------------------------------------------------
(* Layer colouring: LayerManager._prepare_layer_coloring and the 'Value    *)
(* Colors' palette (layers/layer_db.py).  Colours are triples of exact     *)
(* rationals.  The three ratios of the palette are the code's constants    *)
(* rounded to two decimals, which keeps every product within TLC's         *)
(* integers; the palette of the model repeats after 100 entries.           *)

VALUE_COLORMAP_OPTION == "Value Colors"

RatMax2(a, b) == IF RatLE(a, b) THEN b ELSE a
RatMin2(a, b) == IF RatLE(a, b) THEN a ELSE b

\* x % 1.0 for x >= 0
RatFrac(x) == Rat(x.n % x.d, x.d)

\* int(x) for x >= 0
RatFloor(x) == x.n \div x.d

golden_ratio == Rat(62, 100)
secondary_ratio == Rat(38, 100)
tertiary_ratio == Rat(71, 100)

\* colorsys.hsv_to_rgb
hsv_to_rgb(h, s, v) ==
    IF s = RatInt(0) THEN <<v, v, v>>
    ELSE LET h6 == RatMul(h, RatInt(6))
             i == RatFloor(h6)
             f == RatSub(h6, RatInt(i))
             p == RatMul(v, RatSub(RatInt(1), s))
             q == RatMul(v, RatSub(RatInt(1), RatMul(s, f)))
             t == RatMul(v, RatSub(RatInt(1),
                                   RatMul(s, RatSub(RatInt(1), f))))
         IN CASE i % 6 = 0 -> <<v, t, p>>
              [] i % 6 = 1 -> <<q, v, p>>
              [] i % 6 = 2 -> <<p, v, t>>
              [] i % 6 = 3 -> <<p, q, v>>
              [] i % 6 = 4 -> <<t, p, v>>
              [] i % 6 = 5 -> <<v, p, q>>

\* the colour of palette entry i (from 0): the body of the loop of
\* _generate_value_color_palette
palette_color(i) ==
    LET hue == RatFrac(RatMul(RatInt(i), golden_ratio))
        saturation == RatAdd(Rat(65, 100),
                             RatMul(Rat(30, 100),
                                    RatFrac(RatMul(RatInt(i), secondary_ratio))))
        value0 == RatAdd(Rat(70, 100),
                         RatMul(Rat(25, 100),
                                RatFrac(RatMul(RatInt(i), tertiary_ratio))))
        value == IF i % 2 = 1
                 THEN RatMax2(Rat(45, 100), RatSub(value0, Rat(25, 100)))
                 ELSE value0
    IN hsv_to_rgb(hue, RatMin2(saturation, Rat(95, 100)),
                  RatMin2(value, Rat(95, 100)))

\* LayerManager._generate_value_color_palette
_generate_value_color_palette(count) == [k \in 1..count |-> palette_color(k - 1)]

\* np.unique(values): the sorted distinct values
np_unique(values) == SortedSeq({values[k] : k \in 1..Len(values)})

\* Mutant of inverse_indices: every value is sent to the first palette entry.
inverse_indices_first(values) == [k \in 1..Len(values) |-> 0]

\* np.unique(values, return_inverse=True)[1]: for each value its (0-based)
\* position among the sorted distinct values
inverse_indices(values) ==
    LET unique_vals == np_unique(values)
    IN [k \in 1..Len(values) |->
           (CHOOSE u \in 1..Len(unique_vals) : unique_vals[u] = values[k]) - 1]

\* LayerManager._generate_value_color_scalars: palette[inverse_indices], the
\* palette having one entry per distinct value
_generate_value_color_scalars(values) ==
    IF values.is_none THEN None
    ELSE IF Len(values.val) = 0 THEN Some(<< >>)
    ELSE Some(gather(_generate_value_color_palette(Len(np_unique(values.val))),
                     inverse_indices(values.val)))

\* fileio.las_loader.get_normalized_scalars for a numeric column
get_normalized_scalars(las_data, dim_name) ==
    LET scalars == las_data[dim_name]
        all == {scalars[k] : k \in 1..Len(scalars)}
    IN IF all = {} THEN Some(<< >>)
       ELSE LET min_val == CHOOSE v \in all : \A w \in all : v <= w
                max_val == CHOOSE v \in all : \A w \in all : w <= v
            IN IF max_val > min_val
               THEN Some([k \in 1..Len(scalars) |->
                             Rat(scalars[k] - min_val, max_val - min_val)])
               ELSE Some([k \in 1..Len(scalars) |-> RatInt(scalars[k])])

\* LayerManager._prepare_layer_coloring
_prepare_layer_coloring(layer, settings) ==
    IF settings.is_none THEN [scalars |-> None, cmap |-> None]
    ELSE LET colormap_choice == settings.val.colormap
             dim_name == settings.val.dimension
             las == layer.las
             present == /\ ~las.is_none
                        /\ dim_name # ""
                        /\ dim_name \in DOMAIN las.val
             scalars ==
                 IF ~present THEN None
                 ELSE IF colormap_choice = VALUE_COLORMAP_OPTION
                 THEN _generate_value_color_scalars(Some(las.val[dim_name]))
                 ELSE get_normalized_scalars(las.val, dim_name)
             cmap == IF colormap_choice = "Custom" THEN Some("custom_cmap")
                     ELSE IF colormap_choice = VALUE_COLORMAP_OPTION THEN None
                     ELSE Some(colormap_choice)
         IN [scalars |-> scalars, cmap |-> cmap]

----------------------------------------------------------------------------
(* Inputs of _prepare_layer_coloring, and the call as a state machine *)

AttributeValues == {1, 2, 7}

ColoredLayers ==
    {[las |-> None]}
        \cup {[las |-> Some([Class |-> col])] :
                 col \in SeqsUpTo(AttributeValues, MaxValues)}

ColorSettings ==
    {None} \cup {Some([colormap |-> c, dimension |-> d]) :
                    c \in {VALUE_COLORMAP_OPTION, "viridis", "Custom"},
                    d \in {"Class", "Intensity", ""}}

ColorIdle == [op |-> "none"]

InitColor == color_call = ColorIdle

PrepareLayerColoring(layer, settings) ==
    /\ color_call = ColorIdle
    /\ LET out == _prepare_layer_coloring(layer, settings)
       IN color_call' = [op |-> "_prepare_layer_coloring", layer |-> layer,
                         settings |-> settings, scalars |-> out.scalars,
                         cmap |-> out.cmap]
    /\ UNCHANGED non_color_vars

NextColor ==
    \E layer \in ColoredLayers, settings \in ColorSettings :
        PrepareLayerColoring(layer, settings)

----------------------------------------------------------------------------
(* The plotter update manager (viewer/plotter_update_manager.py).  Time is *)
(* not measured: a running debounce timer may expire at any moment.  The   *)
(* manager's reference is the only one to its QTimer, so a timer that is   *)
(* replaced or whose reference is set to None never fires.                 *)

DefaultDebounceDelay == 50
MinDebounceDelay == 10

RunningTimer == Some("QTimer")

\* PlotterUpdateManager.__init__
InitUpdate ==
    /\ update_pending = FALSE
    /\ batch_mode = FALSE
    /\ debounce_timer = None
    /\ debounce_delay = DefaultDebounceDelay
    /\ plotter_updates = 0
    /\ update_call = [op |-> "none"]
    /\ batch_request_waiting = FALSE

\* PlotterUpdateManager._perform_update; the step is recorded with the batch
\* flag that held when plotter.update() was called
_perform_update(op, immediate) ==
    /\ plotter_updates' = plotter_updates + 1
    /\ update_pending' = FALSE
    /\ debounce_timer' = None
    /\ update_call' = [op |-> op, immediate |-> immediate, performed |-> TRUE,
                       in_batch |-> batch_mode]
    /\ batch_request_waiting' = FALSE

\* PlotterUpdateManager._debounced_update: the running timer is stopped and
\* a new single-shot timer is started
_debounced_update ==
    /\ debounce_timer' = RunningTimer
    /\ UNCHANGED <<update_pending, plotter_updates>>

\* PlotterUpdateManager.request_update
RequestUpdate(immediate) ==
    /\ plotter_updates < MaxUpdates
    /\ IF immediate
       THEN _perform_update("request_update", TRUE)
       ELSE /\ update_call' = [op |-> "request_update", immediate |-> FALSE,
                               performed |-> FALSE, in_batch |-> batch_mode]
            /\ IF batch_mode
               THEN /\ update_pending' = TRUE
                    /\ batch_request_waiting' = TRUE
                    /\ UNCHANGED <<debounce_timer, plotter_updates>>
               ELSE /\ _debounced_update
                    /\ UNCHANGED batch_request_waiting
    /\ UNCHANGED <<batch_mode, debounce_delay, non_update_vars>>

\* the timeout of the running debounce timer, connected to _perform_update
TimerExpires ==
    /\ plotter_updates < MaxUpdates
    /\ debounce_timer # None
    /\ _perform_update("timeout", FALSE)
    /\ UNCHANGED <<batch_mode, debounce_delay, non_update_vars>>

\* PlotterUpdateManager.start_batch_mode
StartBatchMode ==
    /\ batch_mode' = TRUE
    /\ update_pending' = FALSE
    /\ update_call' = [op |-> "start_batch_mode", immediate |-> FALSE,
                       performed |-> FALSE, in_batch |-> batch_mode]
    /\ UNCHANGED <<debounce_timer, debounce_delay, plotter_updates,
                   batch_request_waiting, non_update_vars>>

\* PlotterUpdateManager.end_batch_mode
EndBatchMode ==
    /\ plotter_updates < MaxUpdates
    /\ batch_mode' = FALSE
    /\ IF update_pending
       THEN /\ plotter_updates' = plotter_updates + 1
            /\ update_pending' = FALSE
            /\ debounce_timer' = None
            /\ update_call' = [op |-> "end_batch_mode", immediate |-> FALSE,
                               performed |-> TRUE, in_batch |-> FALSE]
            /\ batch_request_waiting' = FALSE
       ELSE /\ update_call' = [op |-> "end_batch_mode", immediate |-> FALSE,
                               performed |-> FALSE, in_batch |-> FALSE]
            /\ UNCHANGED <<update_pending, debounce_timer, plotter_updates,
                           batch_request_waiting>>
    /\ UNCHANGED <<debounce_delay, non_update_vars>>

\* PlotterUpdateManager.set_debounce_delay
SetDebounceDelay(delay_ms) ==
    /\ debounce_delay' = Max(MinDebounceDelay, delay_ms)
    /\ update_call' = [op |-> "set_debounce_delay", immediate |-> FALSE,
                       performed |-> FALSE, in_batch |-> batch_mode]
    /\ UNCHANGED <<update_pending, batch_mode, debounce_timer, plotter_updates,
                   batch_request_waiting, non_update_vars>>

DelayInputs == {0, 100}

NextUpdate ==
    \/ \E immediate \in BOOLEAN : RequestUpdate(immediate)
    \/ TimerExpires
    \/ StartBatchMode
    \/ EndBatchMode
    \/ \E delay_ms \in DelayInputs : SetDebounceDelay(delay_ms)

\* Several calls on one calculator: new lines and recalculations
RecalcClouds == {Some(<< >>), Some(<<<<1, 0, 0>>>>),
                 Some(<<<<1, 0, 3>>, <<3, 0, 0>>>>)}
RecalcEnds == {Some(<<4, 0, 0>>), Some(<<2, 2, 0>>)}
RecalcSamples == {0, 1, 3}
\* values of the two spin boxes (the sample counts scaled down)
SpinSamples == {2, 4}
SpinTolerances == {1, 2}

NextRecalc ==
    \/ \E points \in RecalcClouds, end_point \in RecalcEnds,
          num_samples \in RecalcSamples, tolerance \in Tolerances :
           CalculateAgain(points, Some(CrossStart), end_point, num_samples,
                          tolerance)
    \/ DisplayProfile
    \/ \E num_samples \in SpinSamples, tolerance \in SpinTolerances :
           RecalculateProfile(num_samples, tolerance)

----------------------------------------------------------------------------
(* Line drawing (profile_line/line_drawer.py) and point picking            *)
(* (point_picking/point_picker.py) on the one plotter of the viewer.  The  *)
(* plotter holds at most one picking callback; picking_callback names its  *)
(* owner.                                                                  *)

DrawIdle == [op |-> "none"]

\* LineDrawer.__init__ and PointPicker.__init__, on a plotter without picking
InitDraw ==
    /\ is_drawing = FALSE
    /\ drawer_start_point = None
    /\ drawer_end_point = None
    /\ line_actor = None
    /\ picking_callback = None
    /\ picker_enabled = FALSE
    /\ picked_points = << >>
    /\ session_picks = << >>
    /\ completions = 0
    /\ draw_call = DrawIdle

\* plotter.enable_point_picking(callback=...): the callback registered after
\* the call.  While picking is already enabled the call either raises
\* PyVistaPickingError (in_use_raises, the callback stays) or replaces the
\* callback, depending on the PyVista version; LineDrawer._enable_picking
\* catches the exception.
enable_point_picking(owner, in_use_raises) ==
    IF picking_callback # None /\ in_use_raises THEN picking_callback
    ELSE Some(owner)

\* MainWindow._toggle_height_profile_mode: LineDrawer.start_line_drawing, or
\* LineDrawer.stop_line_drawing followed by clear_completed_line if a line
\* is shown
ToggleHeightProfileMode(mode_enabled, in_use_raises) ==
    /\ IF mode_enabled
       THEN /\ is_drawing' = TRUE
            /\ drawer_start_point' = None
            /\ drawer_end_point' = None
            /\ picking_callback' = enable_point_picking("LineDrawer", in_use_raises)
            /\ session_picks' = << >>
            /\ completions' = 0
            /\ UNCHANGED line_actor
       ELSE /\ is_drawing' = FALSE
            /\ picking_callback' = None
            /\ line_actor' = None
            /\ UNCHANGED <<drawer_start_point, drawer_end_point, session_picks,
                           completions>>
    /\ draw_call' = [op |-> "_toggle_height_profile_mode", enabled |-> mode_enabled]
    /\ UNCHANGED <<picker_vars, layer_vars, non_layer_draw_vars>>

\* The points a click can hit: those of the visible layers.
PickablePoints ==
    UNION {{layers[u].points.val[i] : i \in 1..Len(layers[u].points.val)} :
              u \in {v \in DOMAIN layers :
                        layers[v].visible /\ ~layers[v].points.is_none}}

\* What the plotter hands to a picking callback: nothing, or a point hit.
Picks == {None} \cup {Some(p) : p \in PickablePoints}

\* LineDrawer._on_point_picked, called by the plotter while the drawer's
\* callback is registered: on_first_click, or on_second_click with draw_line
\* and the line-completed callback of the main window.
DrawerPointPicked(picked) ==
    /\ picking_callback = Some("LineDrawer")
    /\ Len(session_picks) < MaxPicks
    /\ IF ~is_drawing \/ picked.is_none
       THEN /\ draw_call' = [op |-> "_on_point_picked", was_drawing |-> is_drawing,
                             accepted |-> FALSE, callback |-> None]
            /\ UNCHANGED <<is_drawing, picking_callback, drawer_vars, session_picks,
                           completions, layer_vars>>
       ELSE IF drawer_start_point = None
       THEN /\ drawer_start_point' = picked
            /\ session_picks' = Append(session_picks, picked.val)
            /\ draw_call' = [op |-> "_on_point_picked", was_drawing |-> is_drawing,
                             accepted |-> TRUE, callback |-> None]
            /\ UNCHANGED <<is_drawing, picking_callback, drawer_end_point,
                           line_actor, completions, layer_vars>>
       ELSE /\ drawer_end_point' = picked
            /\ line_actor' = Some("profile_line")
            /\ session_picks' = Append(session_picks, picked.val)
            /\ completions' = completions + 1
            /\ draw_call' = [op |-> "_on_point_picked", was_drawing |-> is_drawing,
                             accepted |-> TRUE,
                             callback |-> Some(<<drawer_start_point.val, picked.val>>)]
            /\ _on_profile_line_completed(drawer_start_point.val, picked.val)
            /\ UNCHANGED <<drawer_start_point, manager_vars>>
    /\ UNCHANGED <<picker_vars, non_layer_draw_vars>>

\* ViewToolbar._toggle_point_picking -> PointPicker.set_enabled(not enabled):
\* enabling first disables whatever picking is active on the plotter
TogglePointPicking ==
    /\ picker_enabled' = ~picker_enabled
    /\ picking_callback' = IF picker_enabled THEN None ELSE Some("PointPicker")
    /\ draw_call' = [op |-> "_toggle_point_picking", enabled |-> ~picker_enabled]
    /\ UNCHANGED <<is_drawing, drawer_vars, picked_points, session_picks,
                   completions, layer_vars, non_layer_draw_vars>>

\* PointPicker._on_point_picked, called by the plotter while the picker's
\* callback is registered
PickerPointPicked(picked) ==
    /\ picking_callback = Some("PointPicker")
    /\ Len(picked_points) < MaxPicked
    /\ picked_points' = IF picked.is_none THEN picked_points
                        ELSE Append(picked_points, picked.val)
    /\ draw_call' = [op |-> "PointPicker._on_point_picked", picked |-> picked]
    /\ UNCHANGED <<is_drawing, picking_callback, drawer_vars, picker_enabled,
                   session_picks, completions, layer_vars, non_layer_draw_vars>>

\* The layers of the drawing runs: a tile, and a file without points.
DrawLayers ==
    {[file_path |-> "tile.las", points |-> Some(<<NearA, FarC>>),
      las |-> Some([Class |-> <<1, 2>>]), visible |-> TRUE],
     [file_path |-> "empty.las", points |-> Some(<< >>),
      las |-> Some([Class |-> << >>]), visible |-> TRUE]}

NextDraw ==
    \/ \E uuid \in LoadedIds, layer \in DrawLayers : AddLayer(uuid, layer)
    \/ \E mode_enabled \in BOOLEAN, in_use_raises \in BOOLEAN :
           ToggleHeightProfileMode(mode_enabled, in_use_raises)
    \/ \E picked \in Picks : DrawerPointPicked(picked)
    \/ TogglePointPicking
    \/ \E picked \in Picks : PickerPointPicked(picked)

\* The layer manager under the layer list of the sidebar: files are loaded,
\* selected, shown, hidden and removed.
NextManager ==
    \/ \E uuid \in LoadedIds, layer \in LoadableLayers : AddLayer(uuid, layer)
    \/ \E uuid \in LoadedIds : SetCurrentLayer(uuid)
    \/ \E uuid \in LoadedIds : RemoveLayer(uuid)
    \/ \E uuid \in LoadedIds, visible \in BOOLEAN : SetLayerVisible(uuid, visible)
    \/ \E uuid \in LoadedIds : OnLayerRemoved(uuid)

\* The renders of the telemetry runs: times of 10 ms and 100 ms, a large
\* cloud of diagonal 1 seen from four camera distances, and three arrays.
RenderTimes == {10, 100}

TelemetryClouds ==
    {[is_none |-> FALSE, count |-> SmallThreshold + 1, min_coords |-> <<0, 0, 0>>,
      max_coords |-> <<1, 0, 0>>]}

TelemetryViewers ==
    {[has_plotter |-> TRUE,
      camera |-> Some([position |-> <<k, 0, 0>>, focal_point |-> <<0, 0, 0>>])] :
        k \in {1, 2, 5, MaxCam}}

TelemetryArrays == {Some(MkPoints(n)) : n \in {0, 7, MaxPoints}}

NextTelemetry ==
    \/ \E render_time \in RenderTimes : UpdatePerformanceStats(render_time)
    \/ \E auto \in BOOLEAN : SetAutoMode(auto)
    \/ ShouldAutoAdjust
    \/ \E cloud \in TelemetryClouds, viewer \in TelemetryViewers :
           DetermineLodLevel(cloud, viewer, None)
    \/ \E points \in TelemetryArrays, lod_level \in LodLevels :
           ApplyLod(points, None, lod_level)
    \/ LodReturn

Init ==
    /\ InitLOD /\ InitTelemetry /\ InitProfile /\ InitCross /\ InitLayer
    /\ InitColor /\ InitUpdate /\ InitDraw

SpecLOD == Init /\ [][NextLOD]_vars

SpecProfile == Init /\ [][NextProfile]_vars

SpecCross == Init /\ [][NextCross]_vars

SpecLayer == Init /\ [][NextLayer]_vars

SpecRecalc == Init /\ [][NextRecalc]_vars

SpecColor == Init /\ [][NextColor]_vars

SpecUpdate == Init /\ [][NextUpdate]_vars

SpecTelemetry == Init /\ [][NextTelemetry]_vars

SpecManager == Init /\ [][NextManager]_vars

SpecDraw == Init /\ [][NextDraw]_vars

----------------------------------------------------------------------------
(* Properties of the LOD system (checked under SpecLOD) *)

IsApply == lod_call.op = "apply_lod"
IsDetermine == lod_call.op = "determine_lod_level"

\* An attribute column was given and has the length of the point array.
AlignedInput ==
    /\ IsApply
    /\ ~lod_call.points.is_none
    /\ ~lod_call.scalars.is_none
    /\ Len(lod_call.points.val) = Len(lod_call.scalars.val)

\* C1: apply_lod on a point array and an attribute column of equal length
\* returns two arrays of equal length whose i-th entries come from the same
\* original index, for every level.
C1_DecimationAlignment ==
    AlignedInput =>
        LET P == lod_call.points.val
            A == lod_call.scalars.val
            P2 == lod_call.ret.points
            A2 == lod_call.ret.scalars
        IN /\ ~P2.is_none
           /\ ~A2.is_none
           /\ Len(P2.val) = Len(A2.val)
           /\ \A i \in 1..Len(P2.val) :
                  \E j \in 1..Len(P) : P2.val[i] = P[j] /\ A2.val[i] = A[j]

C1_Witness ==
    /\ AlignedInput
    /\ enabled
    /\ lod_call.ret.info.decimation > 1
    /\ Len(lod_call.ret.points.val) >= 2
    /\ Len(lod_call.ret.points.val) < Len(lod_call.points.val)

NoForcedLevel == IsDetermine /\ ~Truthy(lod_call.force_level)

CallPointCount == IF lod_call.cloud.is_none THEN 0 ELSE lod_call.cloud.count

\* threshold (tenths) < relative_distance, and threshold <= relative_distance,
\* for the camera and the cloud of the call
ThresholdBelow(threshold) ==
    threshold * threshold * calculate_scene_size(lod_call.cloud)
        < get_camera_distance(lod_call.viewer)

ThresholdAtOrBelow(threshold) ==
    threshold * threshold * calculate_scene_size(lod_call.cloud)
        <= get_camera_distance(lod_call.viewer)

\* C2: with fewer than 50,000 points and no forced level, determine_lod_level
\* returns 'close' for every camera distance and scene size.
C2_SmallDatasetClose ==
    (NoForcedLevel /\ CallPointCount < 50000) => lod_call.ret = "close"

C2_Witness ==
    /\ NoForcedLevel
    /\ enabled
    /\ CallPointCount = 49999
    /\ ThresholdBelow(distance_thresholds.far)
    /\ lod_call.ret = "close"

\* C3 as stated: a given force_level is returned whatever the enabled flag,
\* the point count, the camera distance and the scene size.
C3_ForcedLevelAlways ==
    (IsDetermine /\ Truthy(lod_call.force_level)) =>
        lod_call.ret = lod_call.force_level.val

\* C3 amended: while the LOD system is enabled, a given force_level is returned
\* whatever the point count, the camera distance and the scene size; while it
\* is disabled the result is 'close'.
C3_ForcedLevelWhenEnabled ==
    (IsDetermine /\ Truthy(lod_call.force_level)) =>
        lod_call.ret = IF enabled THEN lod_call.force_level.val ELSE "close"

C3_Witness ==
    /\ IsDetermine
    /\ enabled
    /\ lod_call.force_level = Some("far")
    /\ CallPointCount = 0
    /\ lod_call.ret = "far"

DistanceLevels == {"far", "medium", "near"}

\* The level of S with the largest threshold, 'close' when S is empty.
LargestOf(S) ==
    IF S = {} THEN "close"
    ELSE CHOOSE l \in S : \A m \in S : distance_thresholds[m] <= distance_thresholds[l]

LargeUnforced == NoForcedLevel /\ CallPointCount >= 50000

\* C4 as stated: the level returned is the one whose threshold is the largest
\* one <= relative_distance, so a relative_distance equal to a threshold
\* selects that threshold's level.
C4_LevelByDistanceInclusive ==
    LargeUnforced =>
        lod_call.ret =
            LargestOf({l \in DistanceLevels : ThresholdAtOrBelow(distance_thresholds[l])})

\* C4 amended: with the LOD system enabled, the level returned is the one whose
\* threshold is the largest one strictly below relative_distance; a
\* relative_distance equal to a threshold selects the next lower level, and one
\* at or below the Near threshold selects 'close'.
C4_LevelByDistanceStrict ==
    (LargeUnforced /\ enabled) =>
        lod_call.ret =
            LargestOf({l \in DistanceLevels : ThresholdBelow(distance_thresholds[l])})

C4_Witness ==
    /\ LargeUnforced
    /\ enabled
    /\ distance_thresholds = DefaultDistanceThresholds
    /\ ThresholdAtOrBelow(distance_thresholds.far)
    /\ ~ThresholdBelow(distance_thresholds.far)
    /\ lod_call.ret = "medium"

\* C5 as stated: when the LOD system is disabled or the level's stride is 1,
\* apply_lod returns its inputs unchanged with an LODInfo that carries the
\* given level, stride 1 and reduction_percent 0.
C5_NoDecimationInfo ==
    (IsApply /\ (~enabled \/ Get(decimation_factors, lod_call.lod_level, 1) = 1)) =>
        /\ lod_call.ret.points = lod_call.points
        /\ lod_call.ret.scalars = lod_call.scalars
        /\ lod_call.ret.info.level = lod_call.lod_level
        /\ lod_call.ret.info.decimation = 1
        /\ "reduction_percent" \in DOMAIN lod_call.ret.info
        /\ lod_call.ret.info.reduction_percent = RatInt(0)

\* C6 as stated: the LODInfo of apply_lod holds original_count = the number
\* of input points, final_count = the number of points returned, and
\* reduction_percent = (original_count - final_count) / original_count * 100.
C6_LodInfoConsistent ==
    (IsApply /\ ~lod_call.points.is_none /\ Len(lod_call.points.val) > 0) =>
        LET info == lod_call.ret.info
            original == Len(lod_call.points.val)
            final == Len(lod_call.ret.points.val)
        IN /\ info.original_count = original
           /\ "final_count" \in DOMAIN info
           /\ info.final_count = final
           /\ "reduction_percent" \in DOMAIN info
           /\ info.reduction_percent.n * original
                  = (original - final) * 100 * info.reduction_percent.d

LevelRank == [close |-> 0, near |-> 1, medium |-> 2, far |-> 3]

\* The LODInfo apply_lod returns for the call's arrays at another level.
InfoAt(level) ==
    apply_lod(LodSys, lod_call.points, lod_call.scalars, level).info

\* The column, when given, has the length of the point array.
WellFormedInput ==
    /\ IsApply
    /\ ~lod_call.points.is_none
    /\ lod_call.scalars.is_none \/ Len(lod_call.scalars.val) = Len(lod_call.points.val)

\* C7: for a fixed array of more than 0 points, the reduction_percent that
\* apply_lod reports does not decrease from Close to Near to Medium to Far.
C7_ReductionMonotone ==
    (WellFormedInput /\ Len(lod_call.points.val) > 0) =>
        \A l1, l2 \in LodLevels :
            (/\ LevelRank[l1] <= LevelRank[l2]
             /\ "reduction_percent" \in DOMAIN InfoAt(l1)
             /\ "reduction_percent" \in DOMAIN InfoAt(l2))
            => RatLE(InfoAt(l1).reduction_percent, InfoAt(l2).reduction_percent)

C7_Witness ==
    /\ WellFormedInput
    /\ enabled
    /\ decimation_factors = DefaultDecimationFactors
    /\ Len(lod_call.points.val) > 20
    /\ RatLT(InfoAt("close").reduction_percent, InfoAt("near").reduction_percent)
    /\ RatLT(InfoAt("near").reduction_percent, InfoAt("medium").reduction_percent)
    /\ RatLT(InfoAt("medium").reduction_percent, InfoAt("far").reduction_percent)

\* The stride of the level of the call.
CallStride == Get(decimation_factors, lod_call.lod_level, 1)

\* The smallest count of strides of length stride that covers n indices.
StridesCovering(n, stride) ==
    CHOOSE c \in 0..n : c * stride >= n /\ (c = 0 \/ (c - 1) * stride < n)

\* C19: when the LOD system is enabled and the stride s of the level is > 1,
\* apply_lod on N > 0 points (with no attribute column or one as long as the
\* points) keeps exactly the points of the original indices 0, s, 2s, ... < N
\* in increasing order: final_count = ceil(N / s) >= 1, and the result is a
\* function of N, s and the inputs alone.
C19_SystematicStride ==
    (WellFormedInput /\ enabled /\ Len(lod_call.points.val) > 0 /\ CallStride > 1) =>
        LET P == lod_call.points.val
            kept == lod_call.ret.points.val
            count == StridesCovering(Len(P), CallStride)
        IN /\ Len(kept) = count
           /\ count >= 1
           /\ \A k \in 1..Len(kept) :
                  /\ (k - 1) * CallStride < Len(P)
                  /\ kept[k] = P[(k - 1) * CallStride + 1]
           /\ Len(kept) * CallStride >= Len(P)
           /\ lod_call.ret.info.final_count = count
           /\ lod_call.ret.info.decimation = CallStride
           /\ ~lod_call.scalars.is_none =>
                  /\ Len(lod_call.ret.scalars.val) = count
                  /\ \A k \in 1..count :
                         lod_call.ret.scalars.val[k]
                             = lod_call.scalars.val[(k - 1) * CallStride + 1]

\* 41 points at stride 20: the indices 0, 20 and 40 are kept.
C19_Witness ==
    /\ WellFormedInput
    /\ enabled
    /\ Len(lod_call.points.val) = 41
    /\ CallStride = 20
    /\ Len(lod_call.ret.points.val) = 3
    /\ lod_call.ret.points.val[3] = lod_call.points.val[41]

IsSceneSize == lod_call.op = "calculate_scene_size"

\* The square of the bounding-box diagonal of the cloud of the call, in
\* units of 1 / SceneScale^2.
DiagonalSq ==
    LET d == Sub3(lod_call.cloud.max_coords, lod_call.cloud.min_coords)
    IN d[1] * d[1] + d[2] * d[2] + d[3] * d[3]

\* 1.0 squared, in units of 1 / SceneScale^2.
OneSq == SceneScale * SceneScale

\* C25: calculate_scene_size returns the length of the bounding-box diagonal
\* for every non-empty point set whose diagonal is > 0, and returns 1.0 only
\* when the set is empty or the computed size is <= 0.
C25_SceneSizeIsDiagonal ==
    IsSceneSize =>
        IF lod_call.cloud.is_none \/ lod_call.cloud.count = 0 THEN lod_call.ret = OneSq
        ELSE IF DiagonalSq > 0 THEN lod_call.ret = DiagonalSq
        ELSE lod_call.ret = OneSq

----------------------------------------------------------------------------
(* Properties of the LOD telemetry (checked under SpecTelemetry) *)

\* The LOD system with its telemetry fields as __init__ left them.
UntouchedSys ==
    [LodSys EXCEPT !.auto_mode = TRUE,
                   !.performance_stats = InitialPerformanceStats]

----------------------------------------------------------------------------
(* Properties of the profile calculator (checked under SpecProfile) *)

IsProfileCall == prof_call.op = "calculate_profile"
ProfileReturned == IsProfileCall /\ prof_call.raised = ""

\* The arguments pass the preconditions: some points, and a line whose two
\* ends are given and differ.
ValidLineCall ==
    /\ IsProfileCall
    /\ ~prof_call.points.is_none
    /\ Len(prof_call.points.val) > 0
    /\ ~prof_call.start_point.is_none
    /\ ~prof_call.end_point.is_none
    /\ prof_call.start_point.val # prof_call.end_point.val

\* The call returned N samples in station order, from distance 0 to the
\* length of the line.
SamplesOf(N) ==
    /\ ProfileReturned
    /\ LET p == prof_call.ret.val
       IN /\ Len(p.distances) = N
          /\ Len(p.min_heights) = N
          /\ Len(p.max_heights) = N
          /\ Len(p.mean_heights) = N
          /\ Len(p.std_heights) = N
          /\ Len(p.point_counts) = N
          /\ \A i \in 1..(N - 1) : RatLT(p.distances[i], p.distances[i + 1])
          /\ p.distances[1] = RatInt(0)
          /\ p.distances[N] = RatInt(1)
          /\ p.total_length
                 = NormSq(Sub3(prof_call.end_point.val, prof_call.start_point.val))

\* C8 as stated: for every valid line and every positive sample count N,
\* calculate_profile returns exactly N samples in station order with
\* distances[0] = 0 and distances[N-1] = the length of the line.
C8_SampleCountPositive ==
    (ValidLineCall /\ prof_call.num_samples >= 1) => SamplesOf(prof_call.num_samples)

\* C8 amended: the same for every sample count N >= 2; with N = 1 the call
\* raises ZeroDivisionError and returns no profile.
C8_SampleCountAtLeastTwo ==
    /\ (ValidLineCall /\ prof_call.num_samples >= 2) => SamplesOf(prof_call.num_samples)
    /\ (ValidLineCall /\ prof_call.num_samples = 1) =>
           (prof_call.raised = "ZeroDivisionError" /\ prof_call.ret = None)

C8_Witness ==
    /\ ValidLineCall
    /\ prof_call.num_samples >= 3
    /\ SamplesOf(prof_call.num_samples)
    /\ prof_call.ret.val.distances[2] = Rat(1, prof_call.num_samples - 1)

\* The stations that had data: at least one point within tolerance.
HadData == {i \in 1..Len(prof_call.ret.val.point_counts) :
               prof_call.ret.val.point_counts[i] >= 1}

FirstWithData == CHOOSE i \in HadData : \A j \in HadData : i <= j
LastWithData == CHOOSE i \in HadData : \A j \in HadData : j <= i

\* In a height series, the stations strictly between the first and the last
\* station with data hold a value, and those before the first or after the
\* last hold none.
Bounded(series) ==
    \A i \in 1..Len(series) :
        IF HadData = {} THEN IsNaN(series[i])
        ELSE /\ (FirstWithData <= i /\ i <= LastWithData) => ~IsNaN(series[i])
             /\ (i < FirstWithData \/ i > LastWithData) => IsNaN(series[i])

\* C9: in the min, max and mean height series that calculate_profile returns,
\* no station strictly between the first and the last station with data is
\* left without a value, and every station before the first or after the
\* last stays without one.
C9_InterpolationBounded ==
    ProfileReturned =>
        /\ Bounded(prof_call.ret.val.min_heights)
        /\ Bounded(prof_call.ret.val.max_heights)
        /\ Bounded(prof_call.ret.val.mean_heights)

\* A station without data was filled between two stations with data of
\* different heights, and stations on both sides stayed empty.
C9_Witness ==
    /\ ProfileReturned
    /\ HadData # {}
    /\ 1 < FirstWithData
    /\ LastWithData < Len(prof_call.ret.val.point_counts)
    /\ \E i \in 1..Len(prof_call.ret.val.point_counts) :
           /\ FirstWithData < i
           /\ i < LastWithData
           /\ prof_call.ret.val.point_counts[i] = 0
           /\ prof_call.ret.val.mean_heights[i] = Rat(3, 2)

\* The call violates a precondition: no points, or a line of length 0.
PreconditionViolated ==
    /\ IsProfileCall
    /\ \/ prof_call.points.is_none
       \/ Len(prof_call.points.val) = 0
       \/ /\ ~prof_call.start_point.is_none
          /\ ~prof_call.end_point.is_none
          /\ prof_call.start_point.val = prof_call.end_point.val

\* C10: calculate_profile with an empty or missing point set, or with start
\* equal to end, raises at entry: it returns no profile and has stored
\* nothing in the calculator.
C10_PreconditionsRaise ==
    PreconditionViolated =>
        /\ prof_call.raised = "ValueError"
        /\ prof_call.ret = None
        /\ calc_points = None
        /\ calc_line_start = None
        /\ calc_line_end = None

C10_Witness ==
    /\ PreconditionViolated
    /\ ~prof_call.points.is_none
    /\ Len(prof_call.points.val) > 0
    /\ prof_call.num_samples >= 2
    /\ prof_call.raised = "ValueError"
    /\ prof_call.message = "Start and end points are identical"

\* The call was given a non-positive tolerance or a non-positive sample count.
NonPositiveParameter ==
    /\ IsProfileCall
    /\ (prof_call.num_samples <= 0 \/ prof_call.tolerance <= 0)

\* C11: calculate_profile called with a non-positive tolerance or a
\* non-positive sample count raises an invalid-argument error (ValueError)
\* and never returns a profile.
C11_ParametersValidated ==
    NonPositiveParameter =>
        /\ prof_call.raised = "ValueError"
        /\ prof_call.ret = None

\* The stations of the call (numpy index k - 1 is station k).
Stations == 1..Len(prof_call.ret.val.point_counts)

\* The positions of the points of the call whose horizontal distance to
\* station k is at most the tolerance. Station k lies at
\* start + (k - 1) / (N - 1) * (end - start); both sides of the comparison
\* are multiplied by (N - 1) squared.
Neighbours(k) ==
    LET P == prof_call.points.val
        a == prof_call.start_point.val
        b == prof_call.end_point.val
        m == prof_call.num_samples - 1
        dx(j) == m * P[j][1] - (m * a[1] + (k - 1) * (b[1] - a[1]))
        dy(j) == m * P[j][2] - (m * a[2] + (k - 1) * (b[2] - a[2]))
    IN {j \in 1..Len(P) :
           dx(j) * dx(j) + dy(j) * dy(j)
               <= prof_call.tolerance * prof_call.tolerance * m * m}

\* The z-values of the neighbours of station k.
NeighbourHeights(k) ==
    LET idx == SortedSeq(Neighbours(k))
    IN [i \in 1..Len(idx) |-> prof_call.points.val[idx[i]][3]]

\* The mean of a non-empty sequence of integers.
MeanOf(heights) == Rat(IntSum(heights), Len(heights))

\* The square of the population standard deviation of a non-empty sequence:
\* the mean of the squared deviations from the mean.
PopulationVariance(heights) ==
    LET mu == MeanOf(heights)
        dev(i) == RatSub(RatInt(heights[i]), mu)
    IN RatDiv(RatSum([i \in 1..Len(heights) |-> RatMul(dev(i), dev(i))]),
              RatInt(Len(heights)))

\* Station k holds the statistics of its neighbours' z-values.
StatisticsOfNeighbours(k) ==
    LET p == prof_call.ret.val
        h == NeighbourHeights(k)
    IN /\ p.point_counts[k] = Len(h)
       /\ \E i \in 1..Len(h) : p.min_heights[k] = RatInt(h[i])
       /\ \A i \in 1..Len(h) : RatLE(p.min_heights[k], RatInt(h[i]))
       /\ \E i \in 1..Len(h) : p.max_heights[k] = RatInt(h[i])
       /\ \A i \in 1..Len(h) : RatLE(RatInt(h[i]), p.max_heights[k])
       /\ p.mean_heights[k] = MeanOf(h)
       /\ p.std_heights[k] = PopulationVariance(h)
       /\ Len(h) = 1 => p.std_heights[k] = RatInt(0)

\* Station k is marked as a station without data. Its min, max and mean
\* heights are NaN after the station loop; in the returned profile they are
\* still NaN unless the station lies between two stations with data, where
\* the later interpolation pass filled them.
MarkedNoData(k) ==
    LET p == prof_call.ret.val
        between == /\ \E i \in Stations : i < k /\ Neighbours(i) # {}
                   /\ \E i \in Stations : i > k /\ Neighbours(i) # {}
    IN /\ p.point_counts[k] = 0
       /\ IsNaN(p.std_heights[k])
       /\ ~between => /\ IsNaN(p.min_heights[k])
                      /\ IsNaN(p.max_heights[k])
                      /\ IsNaN(p.mean_heights[k])

\* C20: in a returned profile, the neighbours of each station are exactly the
\* points whose horizontal distance to the station is <= tolerance; a
\* station with at least one neighbour holds the min, max, mean and
\* population standard deviation (carried squared) of the neighbours'
\* z-values, with deviation 0 for a single neighbour, and their count; a
\* station with no neighbour has point_count 0 and NaN heights.
C20_StationStatistics ==
    ProfileReturned =>
        \A k \in Stations :
            IF Neighbours(k) # {} THEN StatisticsOfNeighbours(k)
            ELSE MarkedNoData(k)

\* One profile with a station that has a single neighbour at exactly the
\* tolerance, a station with two neighbours of heights 0 and 3, and a
\* station without neighbours.
C20_Witness ==
    /\ ProfileReturned
    /\ prof_call.tolerance = 1
    /\ prof_call.num_samples >= 3
    /\ LET p == prof_call.ret.val
       IN /\ p.point_counts[1] = 1
          /\ p.std_heights[1] = RatInt(0)
          /\ \E k \in Stations :
                 /\ p.point_counts[k] = 2
                 /\ p.min_heights[k] = RatInt(0)
                 /\ p.max_heights[k] = RatInt(3)
                 /\ p.mean_heights[k] = Rat(3, 2)
                 /\ p.std_heights[k] = Rat(9, 4)
          /\ \E k \in Stations :
                 /\ p.point_counts[k] = 0
                 /\ IsNaN(p.mean_heights[k])
                 /\ IsNaN(p.std_heights[k])

\* The summary of the returned profile.
Summary == prof_call.ret.val.summary

\* The largest and the smallest of a non-empty set of rationals, each by
\* comparison with every member.
Highest(S) == CHOOSE v \in S : \A w \in S : RatLE(w, v)
Lowest(S) == CHOOSE v \in S : \A w \in S : RatLE(v, w)

\* C21: in the result of calculate_profile, total_elevation_change is
\* |last valid mean - first valid mean| (0 with fewer than 2 valid samples),
\* elevation_range is max(max_heights) - min(min_heights) over the stations
\* with data (0 without any), and coverage_percentage is
\* valid_samples / num_samples * 100 (0 for an empty profile), which lies
\* between 0 and 100.
C21_SummaryDerivation ==
    ProfileReturned =>
        LET p == prof_call.ret.val
            N == prof_call.num_samples
        IN /\ IF Cardinality(HadData) >= 2
              THEN Summary.total_elevation_change
                       = RatAbs(RatSub(p.mean_heights[LastWithData],
                                       p.mean_heights[FirstWithData]))
              ELSE Summary.total_elevation_change = RatInt(0)
           /\ ~RatLT(Summary.total_elevation_change, RatInt(0))
           /\ IF HadData # {}
              THEN Summary.elevation_range
                       = RatSub(Highest({p.max_heights[i] : i \in HadData}),
                                Lowest({p.min_heights[i] : i \in HadData}))
              ELSE Summary.elevation_range = RatInt(0)
           /\ IF N > 0
              THEN Summary.coverage_percentage = Rat(Summary.valid_samples * 100, N)
              ELSE Summary.coverage_percentage = RatInt(0)
           /\ RatLE(RatInt(0), Summary.coverage_percentage)
           /\ RatLE(Summary.coverage_percentage, RatInt(100))

\* A descending profile: the first station with data has mean height 3, the
\* last has mean height 0, and some station has no value.
C21_Witness ==
    /\ ProfileReturned
    /\ Cardinality(HadData) >= 2
    /\ prof_call.ret.val.mean_heights[FirstWithData] = RatInt(3)
    /\ prof_call.ret.val.mean_heights[LastWithData] = RatInt(0)
    /\ Summary.total_elevation_change = RatInt(3)
    /\ Summary.elevation_range = RatInt(3)
    /\ RatLT(RatInt(0), Summary.coverage_percentage)
    /\ RatLT(Summary.coverage_percentage, RatInt(100))

\* C22: in the result of calculate_profile, summary.valid_samples is the
\* number of stations whose point_count is >= 1 (stations filled only by
\* interpolation are not counted), and a station has a non-NaN mean height
\* exactly when its std height is non-NaN.
C22_ValidSamplesHaveData ==
    ProfileReturned =>
        /\ Summary.valid_samples = Cardinality(HadData)
        /\ \A k \in Stations :
               IsNaN(prof_call.ret.val.mean_heights[k])
                   <=> IsNaN(prof_call.ret.val.std_heights[k])

----------------------------------------------------------------------------
(* Properties of the cross-section extraction (checked under SpecCross) *)

IsCrossCall == cross_call.op # "none"
IsGetCall == cross_call.op = "get_cross_section_points"
IsExtractCall == cross_call.op = "_extract_cross_section_points"
CrossReturned == IsCrossCall /\ cross_call.raised = ""

\* The horizontal distance from point to the segment [a, b] is <= tolerance:
\* the point is within tolerance of an end of the segment, or its projection
\* falls inside the segment and its distance to the line is within tolerance.
NearSegment(point, a, b, tolerance) ==
    LET lx == b[1] - a[1]
        ly == b[2] - a[2]
        px == point[1] - a[1]
        py == point[2] - a[2]
    IN /\ tolerance >= 0
       /\ \/ px * px + py * py <= tolerance * tolerance
          \/ (px - lx) * (px - lx) + (py - ly) * (py - ly) <= tolerance * tolerance
          \/ /\ 0 < px * lx + py * ly
             /\ px * lx + py * ly < lx * lx + ly * ly
             /\ (px * ly - py * lx) * (px * ly - py * lx)
                    <= tolerance * tolerance * (lx * lx + ly * ly)

CallNear(point) ==
    NearSegment(point, cross_call.start_point, cross_call.end_point,
                cross_call.tolerance)

\* What the exact extraction returns for the inputs of the call.
ExactResult ==
    get_cross_section_points(cross_call.points, cross_call.start_point,
                             cross_call.end_point, cross_call.tolerance).ret.points

\* C12: every point returned by either cross-section extraction has a
\* horizontal distance to the line segment <= tolerance, and what the
\* station-based extraction returns is part of what the exact extraction
\* returns for the same inputs.
C12_ToleranceContainment ==
    CrossReturned =>
        /\ \A i \in 1..Len(cross_call.ret_points.val) :
               CallNear(cross_call.ret_points.val[i])
        /\ IsExtractCall =>
               \A i \in 1..Len(cross_call.ret_points.val) :
                   \E j \in 1..Len(ExactResult) :
                       ExactResult[j] = cross_call.ret_points.val[i]

\* The station-based extraction kept one point and left out one that the
\* exact extraction keeps.
C12_Witness ==
    /\ IsExtractCall
    /\ CrossReturned
    /\ cross_call.tolerance = 1
    /\ Len(cross_call.ret_points.val) = 1
    /\ Len(ExactResult) = 2

\* The call was given no points, or a line whose ends coincide.
CrossPreconditionViolated ==
    /\ IsCrossCall
    /\ \/ cross_call.points.is_none
       \/ Len(cross_call.points.val) = 0
       \/ cross_call.start_point = cross_call.end_point

\* C13: cross-section extraction with an empty point set or with start equal
\* to end raises an invalid-argument error (ValueError) instead of returning
\* a result.
C13_CrossSectionValidated ==
    CrossPreconditionViolated => cross_call.raised = "ValueError"

\* Some points, a line with two different ends, and no point within tolerance
\* of the segment.
NothingNear ==
    /\ IsCrossCall
    /\ ~cross_call.points.is_none
    /\ Len(cross_call.points.val) > 0
    /\ cross_call.start_point # cross_call.end_point
    /\ \A i \in 1..Len(cross_call.points.val) : ~CallNear(cross_call.points.val[i])

\* C14: when no input point lies within tolerance of a valid line, either
\* extraction returns a result with zero points and does not raise.
C14_EmptyIsNotAnError ==
    NothingNear =>
        /\ cross_call.raised = ""
        /\ ~cross_call.ret_points.is_none
        /\ Len(cross_call.ret_points.val) = 0

C14_Witness ==
    /\ NothingNear
    /\ IsExtractCall
    /\ Len(cross_call.points.val) = 2
    /\ cross_call.tolerance = 2
    /\ cross_call.raised = ""
    /\ cross_call.ret_points = Some(<< >>)

\* Input point j of the call lies within tolerance (horizontally) of one of
\* the dense stations start + (k - 1) / (n - 1) * (end - start), k = 1..n;
\* both sides of the comparison are multiplied by (n - 1) squared.
NearAStation(j) ==
    LET P == cross_call.points.val
        a == cross_call.start_point
        b == cross_call.end_point
        n == num_line_samples(a, b)
        m == n - 1
        dx(k) == m * P[j][1] - (m * a[1] + (k - 1) * (b[1] - a[1]))
        dy(k) == m * P[j][2] - (m * a[2] + (k - 1) * (b[2] - a[2]))
    IN /\ cross_call.tolerance >= 0
       /\ \E k \in 1..n :
              dx(k) * dx(k) + dy(k) * dy(k)
                  <= cross_call.tolerance * cross_call.tolerance * m * m

\* The input points of the call that lie near a station, one entry per index.
QualifyingPoints ==
    BoolIndex(cross_call.points.val,
              [j \in 1..Len(cross_call.points.val) |-> NearAStation(j)])

\* C23: _extract_cross_section_points returns exactly the input points, one
\* entry per qualifying input index (each of several points with identical
\* coordinates included), whose horizontal distance to the nearest dense
\* line station is <= tolerance, and no other point.
C23_InclusionPerIndex ==
    (IsExtractCall /\ CrossReturned) => cross_call.ret_points.val = QualifyingPoints

\* x clamped to [lo, hi], for rationals.
Clamped(x, lo, hi) == IF RatLT(x, lo) THEN lo ELSE IF RatLT(hi, x) THEN hi ELSE x

\* The square of the horizontal distance from point to the point of the
\* segment [a, b] at the clamped fraction t of its length.
HorizontalDistanceSqAt(point, a, b, t) ==
    LET qx == RatSub(RatInt(point[1] - a[1]), RatMul(t, RatInt(b[1] - a[1])))
        qy == RatSub(RatInt(point[2] - a[2]), RatMul(t, RatInt(b[2] - a[2])))
    IN RatAdd(RatMul(qx, qx), RatMul(qy, qy))

\* The fraction of the horizontal segment [a, b] at which point projects,
\* clamped to [0, 1]; 0 for a segment of horizontal length 0.
ClampedFraction(point, a, b) ==
    LET lx == b[1] - a[1]
        ly == b[2] - a[2]
    IN IF lx * lx + ly * ly = 0 THEN RatInt(0)
       ELSE Clamped(Rat((point[1] - a[1]) * lx + (point[2] - a[2]) * ly,
                        lx * lx + ly * ly),
                    RatInt(0), RatInt(1))

\* C24: for every point included in a cross-section result, the reported
\* distance along the line lies in [0, total_length] (line_distances carries
\* the distance times the length of the line, total_length its square), and
\* the reported perpendicular distance (squared) is the horizontal distance
\* to the clamped projection of the point onto the segment.
C24_ClampedLineDistance ==
    (IsGetCall /\ CrossReturned /\ Len(cross_call.ret.points) > 0) =>
        \A i \in 1..Len(cross_call.ret.points) :
            /\ 0 <= cross_call.ret.line_distances[i]
            /\ cross_call.ret.line_distances[i] <= cross_call.ret.total_length
            /\ cross_call.ret.perp_distances[i]
                   = HorizontalDistanceSqAt(
                         cross_call.ret.points[i], cross_call.start_point,
                         cross_call.end_point,
                         ClampedFraction(cross_call.ret.points[i],
                                         cross_call.start_point,
                                         cross_call.end_point))

----------------------------------------------------------------------------
(* Properties of the cross-section layer (checked under SpecLayer) *)

CreatedWithAttributes ==
    /\ layer_call.op = "create_cross_section_layer"
    /\ layer_call.method = "enhanced"

NewLayer == layers[CrossSectionId]

\* The layer whose points the cross-section was extracted from.
ExtractedFrom == layers[profile_layer_id.val]

\* The value that column key stores at the point's own index in the layer the
\* cross-section was extracted from, None when that layer has no such
\* per-point column.
OwnValue(key, point) ==
    LET src == ExtractedFrom
    IN IF src.las.is_none THEN None
       ELSE IF key \notin DOMAIN src.las.val THEN None
       ELSE IF Len(src.las.val[key]) # Len(src.points.val) THEN None
       ELSE Some(src.las.val[key][first_equal_row(src.points.val, point)])

\* the per-point columns of the new layer: those gathered point by point
\* from the layer that was current
GatheredColumns ==
    LET original_layer == layers[layer_call.original_layer_id.val]
    IN {key \in DOMAIN original_layer.las.val :
           Len(original_layer.las.val[key]) = Len(original_layer.points.val)}

\* C15: when the cross-section layer is created with attributes, every
\* per-point column of the new layer is as long as the layer's points, and
\* holds for each point the value stored at that point's own index in the
\* point set the cross-section was extracted from.
C15_AttributeAlignment ==
    CreatedWithAttributes =>
        \A key \in GatheredColumns :
            /\ Len(NewLayer.las.val[key]) = Len(NewLayer.points.val)
            /\ \A i \in 1..Len(NewLayer.points.val) :
                   /\ \E j \in 1..Len(current_points.val) :
                          current_points.val[j] = NewLayer.points.val[i]
                   /\ OwnValue(key, NewLayer.points.val[i])
                          = Some(NewLayer.las.val[key][i])

----------------------------------------------------------------------------
(* Properties of repeated calls (checked under SpecRecalc) *)

\* What a new calculator returns for the arguments of the call.
FirstCallResult ==
    calculate_profile(prof_call.points, prof_call.start_point,
                      prof_call.end_point, prof_call.num_samples,
                      prof_call.tolerance)

----------------------------------------------------------------------------
(* Properties of the layer colouring (checked under SpecColor) *)

\* The call asks for 'Value Colors' on a dimension that the layer has.
ValueColorsCall ==
    /\ color_call.op = "_prepare_layer_coloring"
    /\ ~color_call.settings.is_none
    /\ color_call.settings.val.colormap = VALUE_COLORMAP_OPTION
    /\ ~color_call.layer.las.is_none
    /\ color_call.settings.val.dimension \in DOMAIN color_call.layer.las.val

ColoredValues == color_call.layer.las.val[color_call.settings.val.dimension]

----------------------------------------------------------------------------
(* Properties of the plotter update manager (checked under SpecUpdate) *)

\* C18: between start_batch_mode and end_batch_mode no plotter update is
\* performed by a non-immediate request_update or by the expiry of the
\* debounce timer.
C18_BatchSuppressesUpdates ==
    ~(/\ update_call.op \in {"request_update", "timeout"}
      /\ ~update_call.immediate
      /\ update_call.performed
      /\ update_call.in_batch)

----------------------------------------------------------------------------
(* Properties of the layer manager (checked under SpecManager) *)

\* C27: after any sequence of add_layer, remove_layer, set_current_layer,
\* set_layer_visible and of the main window's layer-removal handler,
\* current_layer_id is None or a key of layers, and current_file_path is
\* that layer's file_path (None when there is no current layer).
C27_CurrentLayerValid ==
    IF current_layer_id = None THEN current_file_path = None
    ELSE /\ current_layer_id.val \in DOMAIN layers
         /\ current_file_path = Some(layers[current_layer_id.val].file_path)

----------------------------------------------------------------------------
(* Batched updates (checked under SpecUpdate) *)

\* C28: every non-immediate request_update made while batch mode is active
\* is followed by a plotter update no later than the return of the
\* end_batch_mode that leaves batch mode, also when start_batch_mode is
\* called again before end_batch_mode: when end_batch_mode has returned, no
\* such request is still waiting for its update.
C28_BatchedUpdateNotLost ==
    update_call.op = "end_batch_mode" => ~batch_request_waiting

----------------------------------------------------------------------------
(* Properties of line drawing and point picking (checked under SpecDraw) *)

\* C29: within one drawing session (from start_line_drawing until the next
\* start_line_drawing or stop_line_drawing) the first accepted pick is the
\* start point and the second the end point, the line-completed callback is
\* invoked at most once, with the start and the end picked in that session,
\* and a pick received while is_drawing is false is not accepted.
C29_LineCompletesOnce ==
    /\ completions <= 1
    /\ Len(session_picks) >= 1 => drawer_start_point = Some(session_picks[1])
    /\ Len(session_picks) >= 2 => drawer_end_point = Some(session_picks[2])
    /\ (draw_call.op = "_on_point_picked" /\ ~draw_call.callback.is_none) =>
           draw_call.callback = Some(<<session_picks[1], session_picks[2]>>)
    /\ (draw_call.op = "_on_point_picked" /\ ~draw_call.was_drawing) =>
           ~draw_call.accepted

\* C30: for any interleaving of PointPicker.set_enabled toggles with
\* LineDrawer start, stop and completion on the same plotter,
\* PointPicker.is_enabled() is true only while point picking is active on
\* the plotter with the PointPicker's own callback registered.
C30_PickerFlagMatchesPlotter ==
    picker_enabled => picking_callback = Some("PointPicker")

====
